---- MODULE Spec2Model ----
(***************************************************************************)
(* Model of the securepass password toolkit: the k-anonymity breach client *)
(* (core/breach.py), the analyzer orchestrator (core/analyzer.py) and the  *)
(* helpers they call (core/entropy.py, utils/patterns.py,                  *)
(* utils/wordlist.py).                                                     *)
(*                                                                         *)
(* Strings are sequences of one-character strings, so that slicing,        *)
(* comparison, case conversion and parsing are computed and not assumed.   *)
(* Entropy (a float in the source) is kept in micro-bits (integer).        *)
(* A call that can raise yields a record whose field `raised` names the    *)
(* exception ("none" when it returned).                                    *)
(***************************************************************************)
EXTENDS Integers, Sequences, FiniteSets, TLC

VARIABLES
    pc,                 \* position of the single (synchronous) thread
    caller,             \* who called check_breach: "direct" | "analyze" | "none"
    password,           \* argument of the running call
    check_breach_status,\* argument of analyze_password
    max_retries,        \* argument of check_breach
    timeout,            \* argument of check_breach
    requests_available, \* breach.py:12-15: FALSE when `requests` failed to import
    data_file,          \* environment: lines of data/common_passwords.txt, None if missing
    WORDLIST_CACHE,     \* wordlist.py:14 module-level cache, None or a set
    full_hash,          \* check_breach locals
    hash_prefix,
    hash_suffix,
    attempt,
    suffixes,           \* list parsed by the last successful _api_request
    response_text,      \* response.text while the current attempt deals with it, else None
    last_error,         \* exception caught by the last attempt, "none" if none
    api_calls,          \* arguments of every _api_request call, in order
    wire,               \* every HTTP request actually sent, in order
    sleeps,             \* argument of every time.sleep call, in order
    stdout,             \* lines printed by check_breach
    cb_outcome,         \* how check_breach ended: returned value or raised
    partial,            \* analyze_password locals computed before the breach check
    record,             \* PasswordAnalysis returned by the last analyze_password, or None
    clock,              \* datetime.now(): one tick per analysis
    analysis_error,     \* exception the last analyze_password call raised, "none" if none
    file_opens,         \* how often the wordlist file has been opened in this process
    fn_call,            \* pure-function harness: the call
    fn_result,          \* pure-function harness: its result
    length,             \* arguments of generate_password
    use_lowercase,
    use_uppercase,
    use_digits,
    use_symbols,
    avoid_ambiguous,
    char_pool,          \* generate_password locals
    required_chars,
    password_chars,
    entropy_source,     \* values secrets.choice has drawn from the random source in this call
    shuffled,           \* SystemRandom().shuffle has been applied to password_chars
    gen_outcome,        \* how generate_password ended: returned value or raised
    passwords,          \* cmd_batch: the stripped non-empty lines of the input file
    no_breach,          \* cmd_batch: args.no_breach
    export,             \* cmd_batch: an export file was asked for (args.export)
    batch_i,            \* cmd_batch: the loop counter i, 0 before the loop
    results,            \* cmd_batch: the list of analyses
    batch_stdout,       \* cmd_batch: what it has printed
    exported,           \* cmd_batch: the results written to the export file, or None
    batch_outcome,      \* cmd_batch: its exit code
    thread_pc,          \* per thread: position inside contains_dictionary_word
    thread_arg,         \* per thread: the password it checks
    thread_wordlist,    \* per thread: the local `wordlist`
    thread_result,      \* per thread: what contains_dictionary_word returned
    wl_log              \* wordlist calls made one after another: call and result

breachVars == <<caller, password, max_retries, timeout, full_hash, hash_prefix,
                hash_suffix, attempt, suffixes, response_text, last_error, api_calls,
                wire, sleeps, stdout, cb_outcome>>
analyzeVars == <<check_breach_status, partial, record, clock, analysis_error>>
envVars == <<requests_available, data_file, WORDLIST_CACHE, file_opens>>
fnVars == <<fn_call, fn_result>>
genArgs == <<length, use_lowercase, use_uppercase, use_digits, use_symbols,
             avoid_ambiguous>>
genVars == <<genArgs, char_pool, required_chars, password_chars, entropy_source,
             shuffled, gen_outcome>>
batchArgs == <<passwords, no_breach, export>>
batchVars == <<batchArgs, batch_i, results, batch_stdout, exported, batch_outcome>>
threadVars == <<thread_pc, thread_arg, thread_wordlist, thread_result>>
moreVars == <<batchVars, threadVars, wl_log>>
vars == <<pc, breachVars, analyzeVars, envVars, fnVars, genVars, moreVars>>

----------------------------------------------------------------------------
(* Bounds of the model *)

MaxAnalyses == 2        \* analyses performed in one run
MaxRetriesArg == 3      \* largest max_retries passed to a direct check_breach call
MaxLines == 2           \* lines in a response body
MaxShortLength == 9     \* generated lengths are 8..MaxShortLength and 128
MaxFreeDraws == 4       \* random values of one generate_password call drawn freely
MaxThreads == 2         \* threads that call the dictionary check at the same time
MaxWordlistCalls == 3   \* wordlist calls made one after another in one process
MaxBatch == 3           \* passwords in the input file of cmd_batch

Threads == 1..MaxThreads

----------------------------------------------------------------------------
(* Optional values: None is the empty tuple, a present value x is <<x>> *)

None == <<>>

Some(x) == <<x>>

----------------------------------------------------------------------------
(* Characters and strings *)

\* U+0060 (grave accent) cannot be written inside a TLA+ string literal
GRAVE == "grave"

ASCII ==
    <<" ","!","\"","#","$","%","&","'","(",")","*","+",",","-",".","/","0","1","2","3","4","5","6",
    "7","8","9",":",";","<","=",">","?","@","A","B","C","D","E","F","G","H","I","J","K","L","M","N",
    "O","P","Q","R","S","T","U","V","W","X","Y","Z","[","\\","]","^","_",GRAVE,"a","b","c","d","e",
    "f","g","h","i","j","k","l","m","n","o","p","q","r","s","t","u","v","w","x","y","z","{","|","}",
    "~">>

\* ord(c) for the printable ASCII characters (code points 32..126)
ord(c) == 31 + (CHOOSE i \in 1..Len(ASCII) : ASCII[i] = c)

chr(n) == ASCII[n - 31]

ascii_lowercase ==
    {"a","b","c","d","e","f","g","h","i","j","k","l","m","n","o","p","q","r","s","t","u","v","w",
    "x","y","z"}

ascii_uppercase ==
    {"A","B","C","D","E","F","G","H","I","J","K","L","M","N","O","P","Q","R","S","T","U","V","W",
    "X","Y","Z"}

digits == {"0","1","2","3","4","5","6","7","8","9"}

punctuation ==
    {"!","\"","#","$","%","&","'","(",")","*","+",",","-",".","/",":",";","<","=",">","?","@","[",
    "\\","]","^","_",GRAVE,"{","|","}","~"}

\* str.lower() / str.upper() on one character
lower_char(c) == IF c \in ascii_uppercase THEN chr(ord(c) + 32) ELSE c

upper_char(c) == IF c \in ascii_lowercase THEN chr(ord(c) - 32) ELSE c

lower(s) == [i \in 1..Len(s) |-> lower_char(s[i])]

upper(s) == [i \in 1..Len(s) |-> upper_char(s[i])]

\* Python's substring test (w in s) for strings
Contains(s, w) ==
    \E i \in 1..(Len(s) - Len(w) + 1) : SubSeq(s, i, i + Len(w) - 1) = w

\* s[:n] and s[n:]
Prefix(s, n) == SubSeq(s, 1, IF n < Len(s) THEN n ELSE Len(s))

Suffix(s, n) == SubSeq(s, n + 1, Len(s))

----------------------------------------------------------------------------
(* The passwords the model is run on *)

PwEmpty == <<>>
PwPassword == <<"p","a","s","s","w","o","r","d">>
PwKeyboard == <<"a","s","d","f","p","v","w","c">>
PwRepeated == <<"k","k","k","b","b","b","b","r">>
PwStrong == <<"K","7","$","m","P","9","@","n","Q","2","#","w","X","5","z","T">>
PwModerate == <<"P","a","s","s","w","o","r","d","1","2","3">>
PwShort == <<"a","b","c","1","2","3">>

\* 218 lowercase letters: the shortest one-class password of 1024 bits or more
PwLong == [i \in 1..218 |-> "a"]

Passwords ==
    {PwEmpty, PwPassword, PwKeyboard, PwRepeated, PwStrong, PwModerate, PwShort}

\* analyze_password is also given the long password
AnalyzedPasswords == Passwords \cup {PwLong}

\* hashlib.sha1(password.encode('utf-8')).hexdigest(), tabulated on Passwords
sha1_hexdigest(p) ==
    CASE p = PwEmpty ->
        <<"d","a","3","9","a","3","e","e","5","e","6","b","4","b","0","d","3","2","5","5","b","f",
        "e","f","9","5","6","0","1","8","9","0","a","f","d","8","0","7","0","9">>
      [] p = PwPassword ->
        <<"5","b","a","a","6","1","e","4","c","9","b","9","3","f","3","f","0","6","8","2","2","5",
        "0","b","6","c","f","8","3","3","1","b","7","e","e","6","8","f","d","8">>
      [] p = PwKeyboard ->
        <<"4","3","6","d","f","0","8","2","8","a","8","f","6","1","0","e","6","8","2","2","b","8",
        "6","5","6","1","9","7","1","e","b","e","7","a","c","a","5","9","1","6">>
      [] p = PwRepeated ->
        <<"4","3","6","d","f","a","a","1","8","5","d","d","2","8","b","4","c","0","8","e","f","2",
        "f","2","a","4","6","0","7","1","0","2","f","c","6","f","d","9","a","6">>
      [] p = PwStrong ->
        <<"f","1","2","0","8","e","5","4","2","c","4","2","2","5","9","a","f","0","c","5","a","4",
        "1","a","5","4","e","f","f","2","b","b","5","7","d","0","1","a","3","7">>
      [] p = PwModerate ->
        <<"b","2","e","9","8","a","d","6","f","6","e","b","8","5","0","8","d","d","6","a","1","4",
        "c","f","a","7","0","4","b","a","d","7","f","0","5","f","6","f","b","1">>
      [] p = PwShort ->
        <<"6","3","6","7","c","4","8","d","d","1","9","3","d","5","6","e","a","7","b","0","b","a",
        "a","d","2","5","b","1","9","4","5","5","e","5","2","9","f","5","e","e">>
      [] p = PwLong ->
        <<"4","5","7","0","c","c","3","f","3","6","9","a","7","9","4","7","6","7","f","4","e","c","d","d","2","0","f","4","2","0","f","7","f","8","1","4","0","4","b","7">>

\* hashlib.sha256(password.encode("utf-8")).hexdigest(), tabulated on Passwords
sha256_hexdigest(p) ==
    CASE p = PwEmpty ->
        <<"e","3","b","0","c","4","4","2","9","8","f","c","1","c","1","4","9","a","f","b","f","4",
        "c","8","9","9","6","f","b","9","2","4","2","7","a","e","4","1","e","4","6","4","9","b","9",
        "3","4","c","a","4","9","5","9","9","1","b","7","8","5","2","b","8","5","5">>
      [] p = PwPassword ->
        <<"5","e","8","8","4","8","9","8","d","a","2","8","0","4","7","1","5","1","d","0","e","5",
        "6","f","8","d","c","6","2","9","2","7","7","3","6","0","3","d","0","d","6","a","a","b","b",
        "d","d","6","2","a","1","1","e","f","7","2","1","d","1","5","4","2","d","8">>
      [] p = PwKeyboard ->
        <<"a","8","d","a","4","a","0","3","7","3","a","c","9","9","c","f","7","7","3","8","3","b",
        "0","c","2","0","7","0","5","f","c","1","9","2","e","1","6","4","e","0","7","1","3","a","d",
        "e","1","b","1","1","6","3","6","0","5","d","f","8","b","3","1","6","c","8">>
      [] p = PwRepeated ->
        <<"7","9","b","f","9","3","6","6","6","b","8","3","c","e","9","9","2","7","9","b","7","d",
        "c","a","f","4","a","a","5","4","3","a","6","0","b","d","0","5","3","e","1","6","7","6","0",
        "5","f","a","7","6","a","c","5","9","9","7","e","2","2","6","b","f","c","8">>
      [] p = PwStrong ->
        <<"2","5","6","4","0","8","6","2","b","2","8","7","4","5","0","f","c","9","3","5","b","f",
        "b","1","d","4","3","3","2","7","1","5","1","6","a","6","1","2","6","b","c","d","c","b","c",
        "b","f","d","7","d","b","1","4","3","8","4","1","f","1","6","4","7","9","2">>
      [] p = PwModerate ->
        <<"0","0","8","c","7","0","3","9","2","e","3","a","b","f","b","d","0","f","a","4","7","b",
        "b","c","2","e","d","9","6","a","a","9","9","b","d","4","9","e","1","5","9","7","2","7","f",
        "c","b","a","0","f","2","e","6","a","b","e","b","3","a","9","d","6","0","1">>
      [] p = PwShort ->
        <<"6","c","a","1","3","d","5","2","c","a","7","0","c","8","8","3","e","0","f","0","b","b",
        "1","0","1","e","4","2","5","a","8","9","e","8","6","2","4","d","e","5","1","d","b","2","d",
        "2","3","9","2","5","9","3","a","f","6","a","8","4","1","1","8","0","9","0">>
      [] p = PwLong ->
        <<"1","8","f","d","5","c","5","6","e","2","8","d","7","f","c","8","e","1","1","9","a","6","2","e","5","2","6","c","a","c","3","0","f","b","2","0","8","4","4","e","1","d","6","f","8","4","f","d","6","a","6","8","6","f","1","c","9","2","8","4","6","b","7","3">>

----------------------------------------------------------------------------
(* core/entropy.py *)

AnyIn(s, class) == \E i \in 1..Len(s) : s[i] \in class

\* variant: a single digit does not count as the digit class
get_character_pool_size_two_digits(p) ==
    IF p = <<>> THEN 0
    ELSE (IF AnyIn(p, ascii_lowercase) THEN 26 ELSE 0)
       + (IF AnyIn(p, ascii_uppercase) THEN 26 ELSE 0)
       + (IF Cardinality({i \in 1..Len(p) : p[i] \in digits}) >= 2 THEN 10 ELSE 0)
       + (IF AnyIn(p, punctuation) THEN 32 ELSE 0)

get_character_pool_size(p) ==
    IF p = <<>> THEN 0
    ELSE (IF AnyIn(p, ascii_lowercase) THEN 26 ELSE 0)
       + (IF AnyIn(p, ascii_uppercase) THEN 26 ELSE 0)
       + (IF AnyIn(p, digits) THEN 10 ELSE 0)
       + (IF AnyIn(p, punctuation) THEN 32 ELSE 0)

\* math.log2(pool_size) in micro-bits, rounded down, for the pool sizes that can occur
log2_micro(n) ==
    CASE n = 10 -> 3321928
      [] n = 26 -> 4700439
      [] n = 32 -> 5000000
      [] n = 36 -> 5169925
      [] n = 42 -> 5392317
      [] n = 52 -> 5700439
      [] n = 58 -> 5857980
      [] n = 62 -> 5954196
      [] n = 68 -> 6087462
      [] n = 84 -> 6392317
      [] n = 94 -> 6554588

\* (entropy_bits, pool_size), entropy in micro-bits
calculate_entropy(p) ==
    IF p = <<>> THEN <<0, 0>>
    ELSE LET pool_size == get_character_pool_size(p)
         IN  IF pool_size = 0 THEN <<0, 0>>
             ELSE <<log2_micro(pool_size) * Len(p), pool_size>>

\* _format_time on log2(seconds) in micro-bits: the unit of the formatted
\* duration (the digits in front of the unit are not modelled)
format_time(lsec) ==
    CASE lsec < -9965785 -> "instant"            \* seconds < 0.001
      [] lsec >= -9965785 /\ lsec < 0 -> "seconds3"  \* < 1: N.NNN seconds
      [] lsec >= 0 /\ lsec < 5906890 -> "seconds"    \* < 60
      [] lsec >= 5906890 /\ lsec < 11813781 -> "minutes"   \* < 3600
      [] lsec >= 11813781 /\ lsec < 16398743 -> "hours"    \* < 86400
      [] lsec >= 16398743 /\ lsec < 19206098 -> "days"     \* < 604800
      [] lsec >= 19206098 /\ lsec < 21305634 -> "weeks"    \* < 2592000
      [] lsec >= 21305634 /\ lsec < 24910496 -> "months"   \* < 31536000
      [] lsec >= 24910496 /\ lsec < 31554352 -> "years"    \* < 3153600000
      [] lsec >= 31554352 /\ lsec < 34876280 -> "centuries" \* < 31536000000
      [] lsec >= 34876280 -> "millennia"

\* 2**entropy_bits is a float power: it raises OverflowError from 1024 bits on
estimate_crack_time_raises(entropy_bits) == entropy_bits >= 1024000000

estimate_crack_time(entropy_bits) ==
    IF entropy_bits <= 0
    THEN [online_attack_100_per_second |-> "instant",
          offline_attack_10B_per_second |-> "instant"]
    ELSE [online_attack_100_per_second |-> format_time(entropy_bits - 6643856),
          offline_attack_10B_per_second |-> format_time(entropy_bits - 33219280)]

----------------------------------------------------------------------------
(* utils/patterns.py *)

COMMON_PATTERNS == <<
    <<"p","a","s","s","w","o","r","d">>,
    <<"1","2","3","4","5","6">>,
    <<"q","w","e","r","t","y">>,
    <<"a","b","c","1","2","3">>,
    <<"l","e","t","m","e","i","n">>,
    <<"w","e","l","c","o","m","e">>,
    <<"m","o","n","k","e","y">>,
    <<"d","r","a","g","o","n">>,
    <<"m","a","s","t","e","r">>,
    <<"a","d","m","i","n">>,
    <<"l","o","g","i","n">>,
    <<"p","a","s","s","w","0","r","d">>,
    <<"p","a","s","s","w","o","r","d","1">>,
    <<"1","2","3","4","5","6","7","8","9">>,
    <<"1","2","3","4","5","6","7","8">>,
    <<"i","l","o","v","e","y","o","u">>,
    <<"p","r","i","n","c","e","s","s">>,
    <<"t","r","u","s","t","n","o","1">>,
    <<"s","u","p","e","r","m","a","n">>,
    <<"b","a","s","e","b","a","l","l">> >>

KEYBOARD_PATTERNS == <<
    <<"q","w","e","r","t","y">>,
    <<"a","s","d","f","g","h">>,
    <<"z","x","c","v","b","n">>,
    <<"q","a","z","w","s","x">>,
    <<"1","2","3","4","5","6">>,
    <<"!","@","#","$","%","^">>,
    <<"a","s","d","f">>,
    <<"q","w","e","r">>,
    <<"z","x","c","v">> >>

has_common_pattern(p) ==
    IF p = <<>> THEN FALSE
    ELSE \E k \in 1..Len(COMMON_PATTERNS) : Contains(lower(p), COMMON_PATTERNS[k])

\* the window starting at i is a run of min_length characters stepping by d
IsRun(p, i, min_length, d) ==
    \A j \in 0..(min_length - 2) : ord(p[i + j + 1]) = ord(p[i + j]) + d

\* variant: only ascending runs are looked for
has_sequential_chars_ascending_only(p, min_length) ==
    IF p = <<>> \/ Len(p) < min_length THEN FALSE
    ELSE \E i \in 1..(Len(p) - min_length + 1) : IsRun(p, i, min_length, 1)

\* lines 104-133: for each window, an ascending check, then a descending one
has_sequential_chars(p, min_length) ==
    IF p = <<>> \/ Len(p) < min_length THEN FALSE
    ELSE \E i \in 1..(Len(p) - min_length + 1) :
             IsRun(p, i, min_length, 1) \/ IsRun(p, i, min_length, -1)

has_repeated_chars(p, min_repeats) ==
    IF p = <<>> \/ Len(p) < min_repeats THEN FALSE
    ELSE \E i \in 1..(Len(p) - min_repeats + 1) :
             \A j \in 1..(min_repeats - 1) : i + j <= Len(p) /\ p[i + j] = p[i]

is_keyboard_pattern(p) ==
    IF p = <<>> THEN FALSE
    ELSE \E k \in 1..Len(KEYBOARD_PATTERNS) : Contains(lower(p), KEYBOARD_PATTERNS[k])

----------------------------------------------------------------------------
(* utils/wordlist.py *)

Whitespace == {" ", "\t", "\n", "\r"}

RECURSIVE lstrip(_)
lstrip(s) == IF s # <<>> /\ Head(s) \in Whitespace THEN lstrip(Tail(s)) ELSE s

RECURSIVE rstrip(_)
rstrip(s) ==
    IF s # <<>> /\ s[Len(s)] \in Whitespace THEN rstrip(SubSeq(s, 1, Len(s) - 1)) ELSE s

strip(s) == rstrip(lstrip(s))

\* The wordlist file the model is run with: one entry per line, a blank line,
\* an entry in mixed case with surrounding blanks, an entry under 4 characters
WordlistFile == <<
    <<"D","r","a","g","o","n","\n">>,
    <<"\n">>,
    <<" ","S","s","w","o"," ","\n">>,
    <<"a","b","c","\n">> >>

\* the set built by the loop of load_wordlist over the lines of the file
ReadWordlist(lines) ==
    {lower(strip(lines[i])) : i \in 1..Len(lines)} \ {<<>>}

\* variant: the cache is never looked at, every call reads the file
load_wordlist_uncached(cache, file) ==
    IF file = None
    THEN [raised |-> "FileNotFoundError", value |-> {}, cache |-> cache, opens |-> 0]
    ELSE [raised |-> "none", value |-> ReadWordlist(file[1]),
          cache |-> Some(ReadWordlist(file[1])), opens |-> 1]

\* load_wordlist: the set returned (raised = "none") or the exception raised,
\* the module-level cache afterwards, and how often the file was opened
load_wordlist(cache, file) ==
    IF cache # None
    THEN [raised |-> "none", value |-> cache[1], cache |-> cache, opens |-> 0]
    ELSE IF file = None
         THEN [raised |-> "FileNotFoundError", value |-> {}, cache |-> cache, opens |-> 0]
         ELSE [raised |-> "none", value |-> ReadWordlist(file[1]),
               cache |-> Some(ReadWordlist(file[1])), opens |-> 1]

\* variant: an entry of any length matches as a substring
contains_dictionary_word_any_length(p, cache, file) ==
    IF p = <<>> THEN [raised |-> "none", value |-> FALSE, cache |-> cache, opens |-> 0]
    ELSE LET loaded == load_wordlist(cache, file)
             wordlist == loaded.value
             password_lower == lower(p)
         IN  [raised |-> "none",
              value |-> /\ loaded.raised = "none"
                        /\ \E word \in wordlist : Contains(password_lower, word),
              cache |-> loaded.cache, opens |-> loaded.opens]

\* variant: no handler around load_wordlist, FileNotFoundError leaves the call
contains_dictionary_word_unhandled(p, cache, file) ==
    IF p = <<>> THEN [raised |-> "none", value |-> FALSE, cache |-> cache, opens |-> 0]
    ELSE LET loaded == load_wordlist(cache, file)
             wordlist == loaded.value
             password_lower == lower(p)
         IN  [raised |-> loaded.raised,
              value |-> /\ loaded.raised = "none"
                        /\ \/ password_lower \in wordlist
                           \/ \E word \in wordlist :
                                 Len(word) >= 4 /\ Contains(password_lower, word),
              cache |-> loaded.cache, opens |-> loaded.opens]

\* contains_dictionary_word: the result (nothing is raised: lines 91-96 handle
\* FileNotFoundError), the module-level cache afterwards, the file opens
contains_dictionary_word(p, cache, file) ==
    IF p = <<>> THEN [raised |-> "none", value |-> FALSE, cache |-> cache, opens |-> 0]
    ELSE LET loaded == load_wordlist(cache, file)
             wordlist == loaded.value
             password_lower == lower(p)
         IN  IF loaded.raised = "FileNotFoundError"
             THEN [raised |-> "none", value |-> FALSE,
                   cache |-> loaded.cache, opens |-> loaded.opens]
             ELSE IF password_lower \in wordlist
             THEN [raised |-> "none", value |-> TRUE,
                   cache |-> loaded.cache, opens |-> loaded.opens]
             ELSE [raised |-> "none",
                   value |-> \E word \in wordlist :
                                 Len(word) >= 4 /\ Contains(password_lower, word),
                   cache |-> loaded.cache, opens |-> loaded.opens]

----------------------------------------------------------------------------
(* core/analyzer.py: criteria, score, rating, recommendations *)

CriteriaNames == {"min_length", "has_lowercase", "has_uppercase", "has_digits",
                  "has_symbols", "no_common_patterns", "no_dictionary_words",
                  "no_sequential_chars"}

\* _check_criteria: the criteria and the wordlist cache afterwards
check_criteria(p, cache, file) ==
    LET dict == contains_dictionary_word(p, cache, file)
    IN  [criteria |->
            [min_length |-> Len(p) >= 12,
             has_lowercase |-> AnyIn(p, ascii_lowercase),
             has_uppercase |-> AnyIn(p, ascii_uppercase),
             has_digits |-> AnyIn(p, digits),
             has_symbols |-> AnyIn(p, punctuation),
             no_common_patterns |-> ~has_common_pattern(p),
             no_dictionary_words |-> ~dict.value,
             no_sequential_chars |-> ~has_sequential_chars(p, 3)],
         cache |-> dict.cache,
         opens |-> dict.opens]

\* variant: the bonus thresholds are exclusive
calculate_strength_score_exclusive(criteria, entropy) ==
    LET base_score == 10 * Cardinality({k \in DOMAIN criteria : criteria[k]})
        entropy_bonus ==
            IF entropy > 70000000 THEN 20
            ELSE IF entropy > 60000000 THEN 15
            ELSE IF entropy > 50000000 THEN 10
            ELSE IF entropy > 40000000 THEN 5
            ELSE 0
        total_score == base_score + entropy_bonus
    IN  IF total_score < 100 THEN total_score ELSE 100

calculate_strength_score(criteria, entropy) ==
    LET base_score == 10 * Cardinality({k \in DOMAIN criteria : criteria[k]})
        entropy_bonus ==
            IF entropy >= 70000000 THEN 20
            ELSE IF entropy >= 60000000 THEN 15
            ELSE IF entropy >= 50000000 THEN 10
            ELSE IF entropy >= 40000000 THEN 5
            ELSE 0
        total_score == base_score + entropy_bonus
    IN  IF total_score < 100 THEN total_score ELSE 100

\* variant: the band limits belong to the lower band
determine_rating_inclusive(score) ==
    IF score <= 40 THEN "weak"
    ELSE IF score <= 70 THEN "moderate"
    ELSE IF score <= 90 THEN "strong"
    ELSE "very_strong"

determine_rating(score) ==
    IF score < 40 THEN "weak"
    ELSE IF score < 70 THEN "moderate"
    ELSE IF score < 90 THEN "strong"
    ELSE "very_strong"

\* dict.get(key, False)
Get(d, key) == IF key \in DOMAIN d THEN d[key] ELSE FALSE

\* one recommendation string; count is the number formatted into the breach warning
Rec(kind) == [kind |-> kind, count |-> 0]

\* variant: the warning does not carry the count
BreachRec_NoCount(count) == [kind |-> "breach_critical", count |-> 0]

BreachRec(count) == [kind |-> "breach_critical", count |-> count]

\* variant: the breach warning is put in front of the criteria recommendations
get_recommendations_prepend(analysis) ==
    LET criteria == analysis.criteria_met
        found == analysis.breach_status.found
        recommendations ==
            (IF found THEN <<BreachRec(analysis.breach_status.occurrence_count)>> ELSE <<>>)
         \o (IF ~Get(criteria, "min_length")
             THEN IF analysis.length < 8 THEN <<Rec("length_critical")>>
                  ELSE IF analysis.length < 12 THEN <<Rec("length_increase")>>
                  ELSE <<>>
             ELSE <<>>)
         \o (IF ~Get(criteria, "has_lowercase") THEN <<Rec("add_lowercase")>> ELSE <<>>)
         \o (IF ~Get(criteria, "has_uppercase") THEN <<Rec("add_uppercase")>> ELSE <<>>)
         \o (IF ~Get(criteria, "has_digits") THEN <<Rec("add_digits")>> ELSE <<>>)
         \o (IF ~Get(criteria, "has_symbols") THEN <<Rec("add_symbols")>> ELSE <<>>)
         \o (IF ~Get(criteria, "no_common_patterns") THEN <<Rec("common_pattern")>> ELSE <<>>)
         \o (IF ~Get(criteria, "no_dictionary_words") THEN <<Rec("dictionary_word")>> ELSE <<>>)
         \o (IF ~Get(criteria, "no_sequential_chars") THEN <<Rec("sequential_chars")>> ELSE <<>>)
         \o (IF analysis.entropy_bits < 40000000 THEN <<Rec("low_entropy")>> ELSE <<>>)
    IN  IF recommendations = <<>> THEN <<Rec("meets_best_practices")>>
        ELSE recommendations

\* variant: the affirmative message depends on the criteria alone
get_recommendations_criteria_only(analysis) ==
    LET criteria == analysis.criteria_met
        found == analysis.breach_status.found
        recommendations ==
            (IF ~Get(criteria, "min_length")
             THEN IF analysis.length < 8 THEN <<Rec("length_critical")>>
                  ELSE IF analysis.length < 12 THEN <<Rec("length_increase")>>
                  ELSE <<>>
             ELSE <<>>)
         \o (IF ~Get(criteria, "has_lowercase") THEN <<Rec("add_lowercase")>> ELSE <<>>)
         \o (IF ~Get(criteria, "has_uppercase") THEN <<Rec("add_uppercase")>> ELSE <<>>)
         \o (IF ~Get(criteria, "has_digits") THEN <<Rec("add_digits")>> ELSE <<>>)
         \o (IF ~Get(criteria, "has_symbols") THEN <<Rec("add_symbols")>> ELSE <<>>)
         \o (IF ~Get(criteria, "no_common_patterns") THEN <<Rec("common_pattern")>> ELSE <<>>)
         \o (IF ~Get(criteria, "no_dictionary_words") THEN <<Rec("dictionary_word")>> ELSE <<>>)
         \o (IF ~Get(criteria, "no_sequential_chars") THEN <<Rec("sequential_chars")>> ELSE <<>>)
         \o (IF found THEN <<BreachRec(analysis.breach_status.occurrence_count)>> ELSE <<>>)
         \o (IF analysis.entropy_bits < 40000000 THEN <<Rec("low_entropy")>> ELSE <<>>)
    IN  IF \A k \in CriteriaNames : Get(criteria, k)
        THEN recommendations \o <<Rec("meets_best_practices")>>
        ELSE recommendations

get_recommendations(analysis) ==
    LET criteria == analysis.criteria_met
        found == analysis.breach_status.found
        recommendations ==
            (IF ~Get(criteria, "min_length")
             THEN IF analysis.length < 8 THEN <<Rec("length_critical")>>
                  ELSE IF analysis.length < 12 THEN <<Rec("length_increase")>>
                  ELSE <<>>
             ELSE <<>>)
         \o (IF ~Get(criteria, "has_lowercase") THEN <<Rec("add_lowercase")>> ELSE <<>>)
         \o (IF ~Get(criteria, "has_uppercase") THEN <<Rec("add_uppercase")>> ELSE <<>>)
         \o (IF ~Get(criteria, "has_digits") THEN <<Rec("add_digits")>> ELSE <<>>)
         \o (IF ~Get(criteria, "has_symbols") THEN <<Rec("add_symbols")>> ELSE <<>>)
         \o (IF ~Get(criteria, "no_common_patterns") THEN <<Rec("common_pattern")>> ELSE <<>>)
         \o (IF ~Get(criteria, "no_dictionary_words") THEN <<Rec("dictionary_word")>> ELSE <<>>)
         \o (IF ~Get(criteria, "no_sequential_chars") THEN <<Rec("sequential_chars")>> ELSE <<>>)
         \o (IF found THEN <<BreachRec(analysis.breach_status.occurrence_count)>> ELSE <<>>)
         \o (IF analysis.entropy_bits < 40000000 THEN <<Rec("low_entropy")>> ELSE <<>>)
    IN  IF recommendations = <<>> THEN <<Rec("meets_best_practices")>>
        ELSE recommendations


----------------------------------------------------------------------------
(* core/generator.py *)

LOWERCASE == SubSeq(ASCII, 66, 91)

UPPERCASE == SubSeq(ASCII, 34, 59)

DIGITS == SubSeq(ASCII, 17, 26)

\* string.punctuation, in its order
SYMBOLS ==
    SubSeq(ASCII, 2, 16) \o SubSeq(ASCII, 27, 33) \o SubSeq(ASCII, 60, 65)
        \o SubSeq(ASCII, 92, 95)

AMBIGUOUS == <<"0", "O", "1", "l", "I">>

CharsOf(s) == {s[i] : i \in 1..Len(s)}

IsAmbiguous(c) == c \in CharsOf(AMBIGUOUS)

NotAmbiguous(c) == ~IsAmbiguous(c)

\* variant: nothing is filtered out
without_ambiguous_keep(chars) == chars

\* ''.join(c for c in chars if c not in AMBIGUOUS)
without_ambiguous(chars) == SelectSeq(chars, NotAmbiguous)

\* a length argument: an int, or a value of another type
IntLength(n) == [type |-> "int", value |-> n]

NonIntLength(t) == [type |-> t, value |-> 0]

\* variant: one character fewer is left to fill than the list is short of
remaining_length_of_short(len, required) == len - Len(required) - 1

\* line 113
remaining_length_of(len, required) == len - Len(required)

\* values of the secure random source; secrets.choice(seq) on the value r
\* returns seq[r mod len(seq)]
RawRandom == {0, 11}

choice(seq, r) == seq[(r % Len(seq)) + 1]

Reverse(s) == [i \in 1..Len(s) |-> s[Len(s) + 1 - i]]

RotateLeft(s) == IF s = <<>> THEN s ELSE Tail(s) \o <<Head(s)>>

\* outcomes of shuffle(list): the order kept, reversed, or rotated by one
\* (three of the len! permutations)
ShuffleOutcomes(s) == {s, Reverse(s), RotateLeft(s)}

----------------------------------------------------------------------------
(* core/breach.py: hashing and response parsing *)

sha1_hash(p) == upper(sha1_hexdigest(p))

\* str.splitlines() for the line breaks "\n", "\r" and "\r\n":
\* the positions where a line break ends
LineBreakEnds(text) ==
    {i \in 1..Len(text) :
        \/ text[i] = "\n"
        \/ text[i] = "\r" /\ ~(i < Len(text) /\ text[i + 1] = "\n")}

\* the line that starts at position s
LineAt(text, s) ==
    LET ends == {e \in LineBreakEnds(text) : e >= s}
    IN  IF ends = {} THEN SubSeq(text, s, Len(text))
        ELSE LET e == CHOOSE x \in ends : \A y \in ends : x <= y
             IN  IF text[e] = "\n" /\ e > s /\ text[e - 1] = "\r"
                 THEN SubSeq(text, s, e - 2)
                 ELSE SubSeq(text, s, e - 1)

RECURSIVE LinesFrom(_, _)
LinesFrom(text, s) ==
    IF s > Len(text) THEN <<>>
    ELSE LET line == LineAt(text, s)
             brk == IF s + Len(line) > Len(text) THEN 0
                    ELSE IF text[s + Len(line)] = "\r" /\ s + Len(line) < Len(text)
                            /\ text[s + Len(line) + 1] = "\n" THEN 2
                    ELSE 1
         IN  <<line>> \o LinesFrom(text, s + Len(line) + (IF brk = 0 THEN 1 ELSE brk))

splitlines(text) == LinesFrom(text, 1)

\* index of the first ":" of a line that has one
FirstColon(line) ==
    CHOOSE i \in 1..Len(line) : line[i] = ":" /\ \A j \in 1..(i - 1) : line[j] # ":"

DigitValue(c) == ord(c) - 48

RECURSIVE DecimalValue(_)
DecimalValue(ds) ==
    IF ds = <<>> THEN 0
    ELSE 10 * DecimalValue(SubSeq(ds, 1, Len(ds) - 1)) + DigitValue(ds[Len(ds)])

\* int(s): blanks around the number and a sign are accepted, anything else than
\* decimal digits raises ValueError
int(s) ==
    LET t == strip(s)
        signed == t # <<>> /\ t[1] \in {"+", "-"}
        ds == IF signed THEN Tail(t) ELSE t
    IN  IF ds = <<>> \/ \E i \in 1..Len(ds) : ds[i] \notin digits
        THEN [raised |-> "ValueError", value |-> 0]
        ELSE [raised |-> "none",
              value |-> IF signed /\ t[1] = "-" THEN 0 - DecimalValue(ds)
                        ELSE DecimalValue(ds)]

\* line.split(':', 1) of a line that has a colon
SplitSuffix(line) == SubSeq(line, 1, FirstColon(line) - 1)

SplitCount(line) == SubSeq(line, FirstColon(line) + 1, Len(line))

HasColon(line) == \E i \in 1..Len(line) : line[i] = ":"

\* variant: a line whose count is no integer is skipped like a line without
\* a colon
RECURSIVE ParseLines_SkipBadCount(_)
ParseLines_SkipBadCount(lines) ==
    IF lines = <<>> THEN [raised |-> "none", value |-> <<>>]
    ELSE LET line == Head(lines)
             rest == ParseLines_SkipBadCount(Tail(lines))
         IN  IF ~HasColon(line) THEN rest
             ELSE LET count == int(SplitCount(line))
                  IN  IF count.raised # "none" THEN rest
                      ELSE [raised |-> "none",
                            value |-> <<[suffix |-> SplitSuffix(line),
                                         count |-> count.value]>> \o rest.value]

\* the parsing loop of _api_request over response.text
RECURSIVE ParseLines(_)
ParseLines(lines) ==
    IF lines = <<>> THEN [raised |-> "none", value |-> <<>>]
    ELSE LET line == Head(lines)
             rest == ParseLines(Tail(lines))
         IN  IF ~HasColon(line) THEN rest
             ELSE LET count == int(SplitCount(line))
                  IN  IF count.raised # "none"
                      THEN [raised |-> count.raised, value |-> <<>>]
                      ELSE IF rest.raised # "none" THEN rest
                      ELSE [raised |-> "none",
                            value |-> <<[suffix |-> SplitSuffix(line),
                                         count |-> count.value]>> \o rest.value]

parse_response(text) == ParseLines(splitlines(text))

\* variant: the comparison ignores case
RECURSIVE scan_suffixes_nocase(_, _)
scan_suffixes_nocase(list, suffix) ==
    IF list = <<>> THEN <<FALSE, 0>>
    ELSE IF upper(Head(list).suffix) = upper(suffix) THEN <<TRUE, Head(list).count>>
    ELSE scan_suffixes_nocase(Tail(list), suffix)

\* the scan of check_breach over the parsed list: first exact match wins
RECURSIVE scan_suffixes(_, _)
scan_suffixes(list, suffix) ==
    IF list = <<>> THEN <<FALSE, 0>>
    ELSE IF Head(list).suffix = suffix THEN <<TRUE, Head(list).count>>
    ELSE scan_suffixes(Tail(list), suffix)

----------------------------------------------------------------------------
(* The remote range service: the response bodies the model is run with *)

\* lines a range response may hold when the caller's hash suffix is own
ResponseLines(own, other) ==
    { own \o <<":","3","8","6","1","4","9","3">>,     \* the caller's hash, breached
      own \o <<":","5">>,                             \* the same with another count
      lower(own) \o <<":","1","0","0">>,              \* the suffix in lowercase
      other \o <<":","7">>,                           \* another hash of the range
      Prefix(own, 20),                                \* a malformed line, no colon
      own \o <<":","1","x">> }                        \* a count that is no integer

RECURSIVE JoinLines(_)
JoinLines(lines) ==
    IF lines = <<>> THEN <<>>
    ELSE Head(lines) \o <<"\r", "\n">> \o JoinLines(Tail(lines))

\* bodies of at most MaxLines lines, each ended by "\r\n"; the service lists a
\* line once
BodiesOf(lineset) ==
    UNION { {JoinLines(ls) : ls \in {s \in [1..n -> lineset] :
                                        \A i, j \in 1..n : s[i] = s[j] => i = j}} :
            n \in 0..MaxLines }

\* the bodies the service may answer the range query of each password with
ResponseBodies ==
    [p \in AnalyzedPasswords |->
        BodiesOf(ResponseLines(Suffix(sha1_hash(p), 5),
                               IF p = PwPassword THEN Suffix(sha1_hash(PwStrong), 5)
                               ELSE Suffix(sha1_hash(PwPassword), 5)))]

\* what _api_request makes of each of these bodies
ParsedBodies ==
    [p \in AnalyzedPasswords |-> [body \in ResponseBodies[p] |-> parse_response(body)]]

NetworkErrors == {"Timeout", "ConnectionError", "HTTPError"}

----------------------------------------------------------------------------
(* State machine *)

NoOutcome == [kind |-> "none", value |-> None, exc |-> "none"]

Return(v) == [kind |-> "return", value |-> v, exc |-> "none"]

Raise(e) == [kind |-> "raise", value |-> None, exc |-> e]

NoError == [type |-> "none", cause |-> "none"]

\* the frame of check_breach before it has run
FrameInit ==
    /\ full_hash = <<>>
    /\ hash_prefix = <<>>
    /\ hash_suffix = <<>>
    /\ attempt = 0
    /\ suffixes = <<>>
    /\ response_text = None

FrameCleared ==
    /\ full_hash' = <<>>
    /\ hash_prefix' = <<>>
    /\ hash_suffix' = <<>>
    /\ attempt' = 0
    /\ suffixes' = <<>>
    /\ response_text' = None

frameVars == <<full_hash, hash_prefix, hash_suffix, attempt, suffixes, response_text>>

logVars == <<api_calls, wire, sleeps, stdout>>

argVars == <<caller, password, max_retries, timeout>>

\* the environment of a process: `requests` importable or not (breach.py:12-15),
\* the wordlist file there or not, the cache unset (wordlist.py:14)
InitEnv ==
    /\ requests_available \in BOOLEAN
    /\ data_file \in {None, Some(WordlistFile)}
    /\ WORDLIST_CACHE = None
    /\ file_opens = 0

\* cmd_batch not called yet
BatchIdle ==
    /\ passwords = <<>>
    /\ no_breach = FALSE
    /\ export = FALSE
    /\ batch_i = 0
    /\ results = <<>>
    /\ batch_stdout = <<>>
    /\ exported = None
    /\ batch_outcome = NoOutcome

\* no thread has called the dictionary check yet
ThreadsIdle ==
    /\ thread_pc = [t \in Threads |-> "idle"]
    /\ thread_arg = [t \in Threads |-> <<>>]
    /\ thread_wordlist = [t \in Threads |-> None]
    /\ thread_result = [t \in Threads |-> None]

\* generate_password not called yet: the arguments hold its defaults
GenIdle ==
    /\ length = IntLength(16)
    /\ use_lowercase = TRUE
    /\ use_uppercase = TRUE
    /\ use_digits = TRUE
    /\ use_symbols = TRUE
    /\ avoid_ambiguous = FALSE
    /\ char_pool = <<>>
    /\ required_chars = <<>>
    /\ password_chars = <<>>
    /\ entropy_source = <<>>
    /\ shuffled = FALSE
    /\ gen_outcome = NoOutcome

\* nothing called yet
InitCommon ==
    /\ GenIdle
    /\ pc = "idle"
    /\ caller = "none"
    /\ password = <<>>
    /\ check_breach_status = FALSE
    /\ max_retries = 3
    /\ timeout = 10
    /\ FrameInit
    /\ last_error = NoError
    /\ api_calls = <<>>
    /\ wire = <<>>
    /\ sleeps = <<>>
    /\ stdout = <<>>
    /\ cb_outcome = NoOutcome
    /\ partial = None
    /\ record = None
    /\ clock = 0
    /\ analysis_error = "none"
    /\ BatchIdle
    /\ ThreadsIdle
    /\ wl_log = <<>>

\* ---- check_breach (breach.py:82-147) ----

\* a call of check_breach(p, timeout = to, max_retries = mr) by the caller c
EnterCheckBreach(c, p, to, mr) ==
    /\ caller' = c
    /\ password' = p
    /\ timeout' = to
    /\ max_retries' = mr
    /\ FrameCleared
    /\ last_error' = NoError
    /\ api_calls' = <<>>
    /\ wire' = <<>>
    /\ sleeps' = <<>>
    /\ stdout' = <<>>
    /\ cb_outcome' = NoOutcome
    /\ pc' = "cb_entry"

\* check_breach called on its own
CallCheckBreach(p, mr) ==
    /\ pc = "idle"
    /\ EnterCheckBreach("direct", p, 10, mr)
    /\ UNCHANGED <<analyzeVars, envVars, fnVars, genVars, moreVars>>

\* variant: the slice takes 6 characters for the prefix
CbEntry_WidePrefix ==
    /\ pc = "cb_entry"
    /\ IF password = <<>>
       THEN /\ cb_outcome' = Return(<<FALSE, 0>>)
            /\ pc' = "cb_exit"
            /\ UNCHANGED <<full_hash, hash_prefix, hash_suffix>>
       ELSE /\ full_hash' = sha1_hash(password)
            /\ hash_prefix' = Prefix(sha1_hash(password), 6)
            /\ hash_suffix' = Suffix(sha1_hash(password), 6)
            /\ pc' = "cb_for"
            /\ UNCHANGED cb_outcome
    /\ UNCHANGED <<argVars, attempt, suffixes, response_text, last_error, logVars,
                   analyzeVars, envVars, fnVars, genVars, moreVars>>

\* variant: no short cut for the empty password
CbEntry_NoEmptyCheck ==
    /\ pc = "cb_entry"
    /\ full_hash' = sha1_hash(password)
    /\ hash_prefix' = Prefix(sha1_hash(password), 5)
    /\ hash_suffix' = Suffix(sha1_hash(password), 5)
    /\ pc' = "cb_for"
    /\ UNCHANGED <<argVars, attempt, suffixes, response_text, last_error, logVars, cb_outcome,
                   analyzeVars, envVars, fnVars, genVars, moreVars>>

\* lines 114-120: the empty-password short cut, else hash and split
CbEntry ==
    /\ pc = "cb_entry"
    /\ IF password = <<>>
       THEN /\ cb_outcome' = Return(<<FALSE, 0>>)
            /\ pc' = "cb_exit"
            /\ UNCHANGED <<full_hash, hash_prefix, hash_suffix>>
       ELSE /\ full_hash' = sha1_hash(password)
            /\ hash_prefix' = Prefix(sha1_hash(password), 5)
            /\ hash_suffix' = Suffix(sha1_hash(password), 5)
            /\ pc' = "cb_for"
            /\ UNCHANGED cb_outcome
    /\ UNCHANGED <<argVars, attempt, suffixes, response_text, last_error, logVars,
                   analyzeVars, envVars, fnVars, genVars, moreVars>>

\* line 123: for attempt in range(max_retries); a loop that ends without a
\* return falls off the end of the function, which returns None
CbFor ==
    /\ pc = "cb_for"
    /\ IF attempt < max_retries
       THEN pc' = "cb_try" /\ UNCHANGED cb_outcome
       ELSE pc' = "cb_exit" /\ cb_outcome' = Return(None)
    /\ UNCHANGED <<argVars, frameVars, last_error, logVars, analyzeVars, envVars, fnVars, genVars, moreVars>>

\* the GET of _api_request (breach.py:54-62)
HttpGet(prefix, to) ==
    [url |-> [base |-> "https://api.pwnedpasswords.com/range/", path |-> prefix],
     headers |-> [UserAgent |-> "SecurePass-Toolkit-v1.0", AddPadding |-> "true"],
     timeout |-> to]

\* lines 51-52: `requests` is missing, nothing is sent
ApiRequestImportError ==
    /\ pc = "cb_try"
    /\ ~requests_available
    /\ api_calls' = Append(api_calls, <<hash_prefix, timeout>>)
    /\ last_error' = [type |-> "ImportError", cause |-> "none"]
    /\ pc' = "cb_except"
    /\ UNCHANGED <<argVars, frameVars, wire, sleeps, stdout, cb_outcome,
                   analyzeVars, envVars, fnVars, genVars, moreVars>>

\* lines 62-63, 74-79: the request times out, cannot connect or gets an HTTP
\* error status; each is re-raised as RequestException
ApiRequestFails(kind) ==
    /\ pc = "cb_try"
    /\ requests_available
    /\ api_calls' = Append(api_calls, <<hash_prefix, timeout>>)
    /\ wire' = Append(wire, HttpGet(hash_prefix, timeout))
    /\ last_error' = [type |-> "RequestException", cause |-> kind]
    /\ pc' = "cb_except"
    /\ UNCHANGED <<argVars, frameVars, sleeps, stdout, cb_outcome,
                   analyzeVars, envVars, fnVars, genVars, moreVars>>

\* lines 62-72: a 2xx response with the given body is parsed; a count that is
\* no integer raises ValueError out of _api_request
ApiRequestResponds(body) ==
    /\ pc = "cb_try"
    /\ requests_available
    /\ api_calls' = Append(api_calls, <<hash_prefix, timeout>>)
    /\ wire' = Append(wire, HttpGet(hash_prefix, timeout))
    /\ response_text' = Some(body)
    /\ LET parsed == ParsedBodies[password][body]
       IN  IF parsed.raised = "none"
           THEN /\ suffixes' = parsed.value
                /\ last_error' = NoError
                /\ pc' = "cb_scan"
           ELSE /\ suffixes' = suffixes
                /\ last_error' = [type |-> parsed.raised, cause |-> "none"]
                /\ pc' = "cb_except"
    /\ UNCHANGED <<argVars, full_hash, hash_prefix, hash_suffix, attempt, sleeps,
                   stdout, cb_outcome, analyzeVars, envVars, fnVars, genVars, moreVars>>

\* lines 127-133: scan the returned list, return on the first match
CbScan ==
    /\ pc = "cb_scan"
    /\ cb_outcome' = Return(scan_suffixes(suffixes, hash_suffix))
    /\ response_text' = None
    /\ pc' = "cb_exit"
    /\ UNCHANGED <<argVars, full_hash, hash_prefix, hash_suffix, attempt, suffixes,
                   last_error, logVars, analyzeVars, envVars, fnVars, genVars, moreVars>>

RECURSIVE Pow2(_)
Pow2(n) == IF n = 0 THEN 1 ELSE 2 * Pow2(n - 1)

\* variant: the backoff starts at 2 seconds
CbExceptRetry_DoubleWait ==
    /\ pc = "cb_except"
    /\ attempt < max_retries - 1
    /\ sleeps' = Append(sleeps, Pow2(attempt + 1))
    /\ response_text' = None
    /\ pc' = "cb_sleep"
    /\ UNCHANGED <<argVars, full_hash, hash_prefix, hash_suffix, attempt, suffixes,
                   last_error, api_calls, wire, stdout,
                   cb_outcome, analyzeVars, envVars, fnVars, genVars, moreVars>>

\* lines 135-140: not the last attempt: sleep 2 ** attempt
CbExceptRetry ==
    /\ pc = "cb_except"
    /\ attempt < max_retries - 1
    /\ sleeps' = Append(sleeps, Pow2(attempt))
    /\ response_text' = None
    /\ pc' = "cb_sleep"
    /\ UNCHANGED <<argVars, full_hash, hash_prefix, hash_suffix, attempt, suffixes,
                   last_error, api_calls, wire, stdout,
                   cb_outcome, analyzeVars, envVars, fnVars, genVars, moreVars>>

\* line 139-140: the sleep ends, `continue` takes the next attempt
SleepReturns ==
    /\ pc = "cb_sleep"
    /\ attempt' = attempt + 1
    /\ pc' = "cb_for"
    /\ UNCHANGED <<argVars, full_hash, hash_prefix, hash_suffix, suffixes, response_text,
                   last_error, logVars, cb_outcome, analyzeVars, envVars, fnVars, genVars, moreVars>>

\* line 139: time.sleep runs signal handlers; an exception raised by one while
\* the thread is blocked leaves check_breach (the statement is in the except
\* block, outside the try)
SleepRaises ==
    /\ pc = "cb_sleep"
    /\ cb_outcome' = Raise("Exception")
    /\ pc' = "cb_exit"
    /\ UNCHANGED <<argVars, frameVars, last_error, logVars, analyzeVars, envVars, fnVars, genVars, moreVars>>

\* variant: the last failure is raised again
CbExceptGiveUp_Reraise ==
    /\ pc = "cb_except"
    /\ ~(attempt < max_retries - 1)
    /\ cb_outcome' = Raise(last_error.type)
    /\ pc' = "cb_exit"
    /\ UNCHANGED <<argVars, frameVars, last_error, logVars, analyzeVars, envVars, fnVars, genVars, moreVars>>

\* lines 141-147: the last attempt failed: warn and fail open
CbExceptGiveUp ==
    /\ pc = "cb_except"
    /\ ~(attempt < max_retries - 1)
    /\ stdout' = stdout \o <<[text |-> "Warning: Breach check failed after attempts",
                              attempts |-> max_retries, error |-> last_error],
                             [text |-> "Password analysis will continue without breach information.",
                              attempts |-> max_retries, error |-> last_error]>>
    /\ cb_outcome' = Return(<<FALSE, 0>>)
    /\ pc' = "cb_exit"
    /\ UNCHANGED <<argVars, frameVars, last_error, api_calls, wire, sleeps,
                   analyzeVars, envVars, fnVars, genVars, moreVars>>

CheckBreachStep ==
    \/ CbEntry
    \/ CbFor
    \/ ApiRequestImportError
    \/ \E kind \in NetworkErrors : ApiRequestFails(kind)
    \/ \E body \in ResponseBodies[password] : ApiRequestResponds(body)
    \/ CbScan
    \/ CbExceptRetry
    \/ SleepReturns
    \/ SleepRaises
    \/ CbExceptGiveUp

\* ---- check_breach called directly, with any max_retries ----

InitBreach ==
    /\ InitEnv
    /\ InitCommon
    /\ fn_call = None
    /\ fn_result = None

NextBreach ==
    \/ \E p \in Passwords, mr \in 0..MaxRetriesArg : CallCheckBreach(p, mr)
    \/ CheckBreachStep

SpecBreach == InitBreach /\ [][NextBreach]_vars

----------------------------------------------------------------------------
(* analyze_password (analyzer.py:217-304) *)


\* the states the module-level cache and the wordlist file can be in
CacheStates == {None, Some(ReadWordlist(WordlistFile))}
FileStates == {None, Some(WordlistFile)}

\* line 254 and line 257 for every password analysed here: what
\* calculate_entropy and _check_criteria give, tabulated once
EntropyOf == [p \in AnalyzedPasswords |-> calculate_entropy(p)]
CriteriaOf ==
    [p \in AnalyzedPasswords |->
        [cache \in CacheStates |->
            [file \in FileStates |-> check_criteria(p, cache, file)]]]

\* variant: the password itself is kept as the record's identifier
analyze_locals_plaintext(p, now, cache, file) ==
    LET entropy == EntropyOf[p]
        checked == CriteriaOf[p][cache][file]
        strength_score == calculate_strength_score(checked.criteria, entropy[1])
    IN  [password_hash |-> p,
         timestamp |-> now,
         entropy_bits |-> entropy[1],
         pool_size |-> entropy[2],
         criteria |-> checked.criteria,
         strength_score |-> strength_score,
         strength_rating |-> determine_rating(strength_score),
         length |-> Len(p),
         breach_status |-> None,
         cache |-> checked.cache,
         opens |-> checked.opens]

\* lines 250-266: fingerprint, timestamp, entropy, criteria, score, rating
analyze_locals(p, now, cache, file) ==
    LET entropy == EntropyOf[p]
        checked == CriteriaOf[p][cache][file]
        strength_score == calculate_strength_score(checked.criteria, entropy[1])
    IN  [password_hash |-> sha256_hexdigest(p),
         timestamp |-> now,
         entropy_bits |-> entropy[1],
         pool_size |-> entropy[2],
         criteria |-> checked.criteria,
         strength_score |-> strength_score,
         strength_rating |-> determine_rating(strength_score),
         length |-> Len(p),
         breach_status |-> None,
         cache |-> checked.cache,
         opens |-> checked.opens]

NotChecked == [checked |-> FALSE, found |-> FALSE, occurrence_count |-> 0]


\* variant: the result of check_breach is copied without marking it checked
breach_status_of_unchecked(outcome) ==
    IF outcome.kind = "return" /\ Len(outcome.value) = 2
    THEN [checked |-> FALSE, found |-> outcome.value[1],
          occurrence_count |-> outcome.value[2]]
    ELSE NotChecked

\* lines 270-279: unpack the pair check_breach returned; a raised Exception, or
\* a value that does not unpack into two, gives the not-checked status
breach_status_of(outcome) ==
    IF outcome.kind = "return" /\ Len(outcome.value) = 2
    THEN [checked |-> TRUE, found |-> outcome.value[1],
          occurrence_count |-> outcome.value[2]]
    ELSE NotChecked

\* variant: a breached password loses 10 points
password_analysis_breach_penalty(part, crack_time) ==
    LET found == part.breach_status[1].found
        analysis ==
            [password_hash |-> part.password_hash,
             timestamp |-> part.timestamp,
             strength_score |-> IF found /\ part.strength_score >= 10
                                THEN part.strength_score - 10
                                ELSE part.strength_score,
             strength_rating |-> part.strength_rating,
             length |-> part.length,
             entropy_bits |-> part.entropy_bits,
             character_pool_size |-> part.pool_size,
             criteria_met |-> part.criteria,
             breach_status |-> part.breach_status[1],
             recommendations |-> <<>>,
             estimated_crack_time |-> crack_time]
    IN  [analysis EXCEPT !.recommendations = get_recommendations(analysis)]

\* lines 286-302: the record, then its recommendations
password_analysis(part, crack_time) ==
    LET analysis ==
            [password_hash |-> part.password_hash,
             timestamp |-> part.timestamp,
             strength_score |-> part.strength_score,
             strength_rating |-> part.strength_rating,
             length |-> part.length,
             entropy_bits |-> part.entropy_bits,
             character_pool_size |-> part.pool_size,
             criteria_met |-> part.criteria,
             breach_status |-> part.breach_status[1],
             recommendations |-> <<>>,
             estimated_crack_time |-> crack_time]
    IN  [analysis EXCEPT !.recommendations = get_recommendations(analysis)]

\* analyze_password(p, check_breach_status = flag) is entered; lines 250-266 run
EnterAnalyze(p, flag) ==
    /\ clock' = clock + 1
    /\ password' = p
    /\ check_breach_status' = flag
    /\ partial' = Some(analyze_locals(p, clock + 1, WORDLIST_CACHE, data_file))
    /\ WORDLIST_CACHE' = partial'[1].cache
    /\ file_opens' = file_opens + partial'[1].opens
    /\ analysis_error' = "none"
    /\ caller' = "none"
    /\ FrameCleared
    /\ last_error' = NoError
    /\ api_calls' = <<>>
    /\ wire' = <<>>
    /\ sleeps' = <<>>
    /\ stdout' = <<>>
    /\ cb_outcome' = NoOutcome
    /\ pc' = "an_breach"
    /\ UNCHANGED <<max_retries, timeout, record, requests_available, data_file>>

\* analyze_password called on its own
AnalyzeCall(p, flag) ==
    /\ pc \in {"idle", "an_returned", "an_raised"}
    /\ clock < MaxAnalyses
    /\ EnterAnalyze(p, flag)
    /\ UNCHANGED <<fnVars, genVars, moreVars>>

\* lines 269-271: breach checking enabled, check_breach(password) is called
\* with its defaults timeout = 10, max_retries = 3
AnalyzeCallBreach ==
    /\ pc = "an_breach"
    /\ check_breach_status
    /\ EnterCheckBreach("analyze", password, 10, 3)
    /\ UNCHANGED <<analyzeVars, envVars, fnVars, genVars, moreVars>>

\* lines 280-281: breach checking disabled
AnalyzeSkipBreach ==
    /\ pc = "an_breach"
    /\ ~check_breach_status
    /\ partial' = Some([partial[1] EXCEPT !.breach_status = Some(NotChecked)])
    /\ pc' = "an_finish"
    /\ UNCHANGED <<breachVars, check_breach_status, record, clock, analysis_error, envVars, fnVars, genVars, moreVars>>

\* variant: no handler around the call, an exception of check_breach leaves
\* analyze_password
AnalyzeBreachReturn_Propagates ==
    /\ pc = "cb_exit"
    /\ caller = "analyze"
    /\ IF cb_outcome.kind = "raise"
       THEN /\ partial' = None
            /\ analysis_error' = cb_outcome.exc
            /\ pc' = "an_raised"
       ELSE /\ partial' = Some([partial[1] EXCEPT
                                   !.breach_status = Some(breach_status_of(cb_outcome))])
            /\ UNCHANGED analysis_error
            /\ pc' = "an_finish"
    /\ FrameCleared
    /\ UNCHANGED <<argVars, last_error, logVars, cb_outcome, check_breach_status,
                   record, clock, envVars, fnVars, genVars, moreVars>>

\* lines 271-279: check_breach came back, by a return or by an exception
AnalyzeBreachReturn ==
    /\ pc = "cb_exit"
    /\ caller = "analyze"
    /\ partial' = Some([partial[1] EXCEPT
                            !.breach_status = Some(breach_status_of(cb_outcome))])
    /\ FrameCleared
    /\ pc' = "an_finish"
    /\ UNCHANGED <<argVars, last_error, logVars, cb_outcome, check_breach_status,
                   record, clock, analysis_error, envVars, fnVars, genVars, moreVars>>

\* lines 283-304: crack time, record, recommendations, return
AnalyzeFinish ==
    /\ pc = "an_finish"
    /\ IF estimate_crack_time_raises(partial[1].entropy_bits)
       THEN /\ pc' = "an_raised"
            /\ analysis_error' = "OverflowError"
            /\ UNCHANGED record
       ELSE /\ pc' = "an_returned"
            /\ UNCHANGED analysis_error
            /\ record' = Some(password_analysis(partial[1],
                                  estimate_crack_time(partial[1].entropy_bits)))
    /\ partial' = None
    /\ UNCHANGED <<breachVars, check_breach_status, clock, envVars, fnVars, genVars, moreVars>>

Init ==
    /\ InitEnv
    /\ InitCommon
    /\ fn_call = None
    /\ fn_result = None

Next ==
    \/ \E p \in AnalyzedPasswords, flag \in BOOLEAN : AnalyzeCall(p, flag)
    \/ AnalyzeCallBreach
    \/ AnalyzeSkipBreach
    \/ CheckBreachStep
    \/ AnalyzeBreachReturn
    \/ AnalyzeFinish

Spec == Init /\ [][Next]_vars


----------------------------------------------------------------------------
(* generate_password (generator.py:23-123) *)

\* length arguments passed to generate_password
GenLengths ==
    {IntLength(n) : n \in {7, 128, 129} \cup 8..MaxShortLength}
        \cup {NonIntLength("float"), NonIntLength("NoneType")}

\* what the random source may hand out next: anything in RawRandom for the
\* first MaxFreeDraws values of a call, the previous value again afterwards
NextRandom ==
    IF Len(entropy_source) < MaxFreeDraws THEN RawRandom
    ELSE {entropy_source[Len(entropy_source)]}

otherThanGen == <<breachVars, analyzeVars, envVars, fnVars, moreVars>>

GenCall(len, lower_, upper_, digits_, symbols_, ambiguous_) ==
    /\ pc = "idle"
    /\ length' = len
    /\ use_lowercase' = lower_
    /\ use_uppercase' = upper_
    /\ use_digits' = digits_
    /\ use_symbols' = symbols_
    /\ avoid_ambiguous' = ambiguous_
    /\ pc' = "gen_validate"
    /\ UNCHANGED <<char_pool, required_chars, password_chars, entropy_source,
                   shuffled, gen_outcome, otherThanGen>>

\* variant: a length outside 8..128 is brought into the range
GenValidateLength_Clamp ==
    /\ pc = "gen_validate"
    /\ IF length.type # "int"
       THEN /\ gen_outcome' = Raise("ValueError: Length must be an integer")
            /\ pc' = "gen_exit"
            /\ UNCHANGED length
       ELSE /\ length' = IF length.value < 8 THEN IntLength(8)
                         ELSE IF length.value > 128 THEN IntLength(128)
                         ELSE length
            /\ pc' = "gen_lowercase"
            /\ UNCHANGED gen_outcome
    /\ char_pool' = <<>>
    /\ required_chars' = <<>>
    /\ UNCHANGED <<use_lowercase, use_uppercase, use_digits, use_symbols,
                   avoid_ambiguous, password_chars, entropy_source, shuffled,
                   otherThanGen>>

\* lines 67-77
GenValidateLength ==
    /\ pc = "gen_validate"
    /\ IF length.type # "int"
       THEN /\ gen_outcome' = Raise("ValueError: Length must be an integer")
            /\ pc' = "gen_exit"
            /\ UNCHANGED <<char_pool, required_chars>>
       ELSE IF length.value < 8
       THEN /\ gen_outcome' =
                   Raise("ValueError: Password length must be at least 8 characters")
            /\ pc' = "gen_exit"
            /\ UNCHANGED <<char_pool, required_chars>>
       ELSE IF length.value > 128
       THEN /\ gen_outcome' =
                   Raise("ValueError: Password length must not exceed 128 characters")
            /\ pc' = "gen_exit"
            /\ UNCHANGED <<char_pool, required_chars>>
       ELSE /\ char_pool' = <<>>
            /\ required_chars' = <<>>
            /\ pc' = "gen_lowercase"
            /\ UNCHANGED gen_outcome
    /\ UNCHANGED <<genArgs, password_chars, entropy_source, shuffled, otherThanGen>>

\* one `if use_...:` block: the class is added to the pool and one of its
\* characters is drawn
AddClass(selected, chars, next) ==
    /\ IF selected
       THEN \E r \in NextRandom :
                /\ char_pool' = char_pool \o chars
                /\ required_chars' = Append(required_chars, choice(chars, r))
                /\ entropy_source' = Append(entropy_source, r)
       ELSE UNCHANGED <<char_pool, required_chars, entropy_source>>
    /\ pc' = next
    /\ UNCHANGED <<genArgs, password_chars, shuffled, gen_outcome, otherThanGen>>

\* lines 79-84
GenLowercase ==
    /\ pc = "gen_lowercase"
    /\ AddClass(use_lowercase,
                IF avoid_ambiguous THEN without_ambiguous(LOWERCASE) ELSE LOWERCASE,
                "gen_uppercase")

\* lines 86-91
GenUppercase ==
    /\ pc = "gen_uppercase"
    /\ AddClass(use_uppercase,
                IF avoid_ambiguous THEN without_ambiguous(UPPERCASE) ELSE UPPERCASE,
                "gen_digits")

\* lines 93-98
GenDigits ==
    /\ pc = "gen_digits"
    /\ AddClass(use_digits,
                IF avoid_ambiguous THEN without_ambiguous(DIGITS) ELSE DIGITS,
                "gen_symbols")

\* lines 100-102
GenSymbols ==
    /\ pc = "gen_symbols"
    /\ AddClass(use_symbols, SYMBOLS, "gen_check_pool")

\* variant: the characters drawn per class are not put into the password
GenCheckPool_NoRequired ==
    /\ pc = "gen_check_pool"
    /\ IF char_pool = <<>>
       THEN /\ gen_outcome' =
                   Raise("ValueError: At least one character set must be selected")
            /\ pc' = "gen_exit"
            /\ UNCHANGED <<password_chars, required_chars>>
       ELSE /\ password_chars' = <<>>
            /\ required_chars' = <<>>
            /\ pc' = "gen_fill"
            /\ UNCHANGED gen_outcome
    /\ UNCHANGED <<genArgs, char_pool, entropy_source, shuffled, otherThanGen>>

\* lines 105-110
GenCheckPool ==
    /\ pc = "gen_check_pool"
    /\ IF char_pool = <<>>
       THEN /\ gen_outcome' =
                   Raise("ValueError: At least one character set must be selected")
            /\ pc' = "gen_exit"
            /\ UNCHANGED password_chars
       ELSE /\ password_chars' = required_chars
            /\ pc' = "gen_fill"
            /\ UNCHANGED gen_outcome
    /\ UNCHANGED <<genArgs, char_pool, required_chars, entropy_source, shuffled,
                   otherThanGen>>

\* lines 113-115: one iteration of the fill loop
GenFill ==
    /\ pc = "gen_fill"
    /\ Len(password_chars) - Len(required_chars)
           < remaining_length_of(length.value, required_chars)
    /\ \E r \in NextRandom :
           /\ password_chars' = Append(password_chars, choice(char_pool, r))
           /\ entropy_source' = Append(entropy_source, r)
    /\ UNCHANGED <<pc, genArgs, char_pool, required_chars, shuffled, gen_outcome,
                   otherThanGen>>

\* lines 120-123: the loop is over; shuffle, join and return
GenShuffle ==
    /\ pc = "gen_fill"
    /\ Len(password_chars) - Len(required_chars)
           >= remaining_length_of(length.value, required_chars)
    /\ \E out \in ShuffleOutcomes(password_chars) :
           /\ password_chars' = out
           /\ gen_outcome' = Return(out)
    /\ shuffled' = TRUE
    /\ pc' = "gen_exit"
    /\ UNCHANGED <<genArgs, char_pool, required_chars, entropy_source, otherThanGen>>

InitGen ==
    /\ requests_available = TRUE
    /\ data_file = None
    /\ WORDLIST_CACHE = None
    /\ file_opens = 0
    /\ InitCommon
    /\ fn_call = None
    /\ fn_result = None

NextGen ==
    \/ \E len \in GenLengths, lo, up, di, sy, amb \in BOOLEAN :
           GenCall(len, lo, up, di, sy, amb)
    \/ GenValidateLength
    \/ GenLowercase
    \/ GenUppercase
    \/ GenDigits
    \/ GenSymbols
    \/ GenCheckPool
    \/ GenFill
    \/ GenShuffle

SpecGen == InitGen /\ [][NextGen]_vars

----------------------------------------------------------------------------
(* The pure functions of the analyzer applied to drawn arguments *)

MaxScoreArg == 100      \* largest score passed to _determine_rating
MaxEntropyLen == 3      \* longest drawn password passed to calculate_entropy
MaxSeqLen == 4          \* longest drawn password passed to has_sequential_chars
MaxMinLength == 4       \* largest min_length passed to has_sequential_chars

\* entropies (micro-bits) around every bonus threshold
ScoreEntropies ==
    {-1000000, 0, 30000000, 39999999, 40000000, 45000000, 49999999, 50000000,
     55000000, 59999999, 60000000, 65000000, 69999999, 70000000, 75000000, 80000000}

\* entropies (micro-bits) of the analyses passed to get_recommendations
RecEntropies == {0, 39999999, 40000000, 75000000}

\* lengths of the analyses passed to get_recommendations
RecLengths == {0, 7, 8, 11, 12, 16}

\* breach statuses of the analyses passed to get_recommendations
RecBreachStatuses ==
    {NotChecked,
     [checked |-> TRUE, found |-> FALSE, occurrence_count |-> 0],
     [checked |-> TRUE, found |-> TRUE, occurrence_count |-> 1],
     [checked |-> TRUE, found |-> TRUE, occurrence_count |-> 3861493]}

\* all strings of at most n characters of the alphabet
Strings(alphabet, n) == UNION {[1..k -> alphabet] : k \in 0..n}

\* passwords passed to calculate_entropy: one character of each class and the
\* space, which belongs to none
EntropyInputs == Strings({"a", "Z", "7", "!", " "}, MaxEntropyLen) \cup Passwords

\* passwords passed to has_sequential_chars: neighbours in code point within
\* the letters and within the digits, and the examples of test_patterns.py
SequentialInputs ==
    Strings({"a", "b", "c", "1", "2"}, MaxSeqLen)
        \cup {<<"a", "1", "b", "2", "c", "3">>, <<"x", "y", "z", "9", "8", "7">>}

NoCriteria == [k \in CriteriaNames |-> FALSE]

\* the analyses are those analyze_password builds: min_length is len >= 12
\* (analyzer.py:52)
FnCalls ==
    [fn : {"calculate_strength_score"},
     criteria : [CriteriaNames -> BOOLEAN],
     entropy : ScoreEntropies,
     score : {0}, length : {0}, breach_status : {NotChecked}, password : {<<>>},
     min_length : {3}]
    \cup
    [fn : {"_determine_rating"},
     criteria : {NoCriteria},
     entropy : {0},
     score : 0..MaxScoreArg, length : {0}, breach_status : {NotChecked},
     password : {<<>>}, min_length : {3}]
    \cup
    {c \in [fn : {"get_recommendations"},
            criteria : [CriteriaNames -> BOOLEAN],
            entropy : RecEntropies,
            score : {0}, length : RecLengths, breach_status : RecBreachStatuses,
            password : {<<>>}, min_length : {3}] :
        c.criteria["min_length"] <=> c.length >= 12}
    \cup
    [fn : {"calculate_entropy"},
     criteria : {NoCriteria},
     entropy : {0},
     score : {0}, length : {0}, breach_status : {NotChecked},
     password : EntropyInputs, min_length : {3}]
    \cup
    [fn : {"has_sequential_chars"},
     criteria : {NoCriteria},
     entropy : {0},
     score : {0}, length : {0}, breach_status : {NotChecked},
     password : SequentialInputs, min_length : 0..MaxMinLength]

InitFn ==
    /\ requests_available = TRUE
    /\ data_file = None
    /\ WORDLIST_CACHE = None
    /\ file_opens = 0
    /\ InitCommon
    /\ fn_call \in {Some(c) : c \in FnCalls}
    /\ fn_result = None

\* ---- the wordlist module called directly (wordlist.py:17-110) ----

\* passwords passed to contains_dictionary_word: the empty one, entries of the
\* file in either case, entries inside a longer password, and no entry
WordlistInputs ==
    {<<>>,
     <<"a","b","c">>, <<"A","B","C">>, <<"x","a","b","c","x">>,
     <<"s","s","w","o">>, <<"D","r","a","g","o","n">>,
     <<"x","D","R","A","G","O","N","1">>, <<"d","r","a","g","o">>,
     PwPassword, PwStrong}

InitWordlist ==
    /\ requests_available = TRUE
    /\ data_file \in FileStates
    /\ WORDLIST_CACHE = None
    /\ file_opens = 0
    /\ InitCommon
    /\ fn_call = None
    /\ fn_result = None

\* load_wordlist() is called
CallLoadWordlist ==
    /\ Len(wl_log) < MaxWordlistCalls
    /\ LET r == load_wordlist(WORDLIST_CACHE, data_file)
       IN  /\ WORDLIST_CACHE' = r.cache
           /\ file_opens' = file_opens + r.opens
           /\ wl_log' = Append(wl_log, [fn |-> "load_wordlist", password |-> <<>>,
                                        raised |-> r.raised, value |-> r.value,
                                        opens |-> r.opens])
    /\ UNCHANGED <<pc, breachVars, analyzeVars, requests_available, data_file,
                   fnVars, genVars, batchVars, threadVars>>

\* contains_dictionary_word(p) is called
CallContainsDictionaryWord(p) ==
    /\ Len(wl_log) < MaxWordlistCalls
    /\ LET r == contains_dictionary_word(p, WORDLIST_CACHE, data_file)
       IN  /\ WORDLIST_CACHE' = r.cache
           /\ file_opens' = file_opens + r.opens
           /\ wl_log' = Append(wl_log, [fn |-> "contains_dictionary_word", password |-> p,
                                        raised |-> r.raised, value |-> r.value,
                                        opens |-> r.opens])
    /\ UNCHANGED <<pc, breachVars, analyzeVars, requests_available, data_file,
                   fnVars, genVars, batchVars, threadVars>>

NextWordlist ==
    \/ CallLoadWordlist
    \/ \E p \in WordlistInputs : CallContainsDictionaryWord(p)

SpecWordlist == InitWordlist /\ [][NextWordlist]_vars

\* ---- contains_dictionary_word called by several threads (wordlist.py:17-110) ----
\* No lock guards load_wordlist; a thread can be switched out between any two
\* of its statements, and reading the file releases the interpreter lock.

InitThreads ==
    /\ requests_available = TRUE
    /\ data_file \in FileStates
    /\ WORDLIST_CACHE = None
    /\ file_opens = 0
    /\ InitCommon
    /\ fn_call = None
    /\ fn_result = None

threadRest == <<pc, breachVars, analyzeVars, requests_available, data_file,
                fnVars, genVars, batchVars, wl_log>>

\* lines 88-89: thread t calls contains_dictionary_word(p); the empty
\* password returns at once
ThreadCall(t, p) ==
    /\ thread_pc[t] = "idle"
    /\ thread_arg' = [thread_arg EXCEPT ![t] = p]
    /\ IF p = <<>>
       THEN /\ thread_result' = [thread_result EXCEPT ![t] = Some(FALSE)]
            /\ thread_pc' = [thread_pc EXCEPT ![t] = "returned"]
       ELSE /\ thread_pc' = [thread_pc EXCEPT ![t] = "load_wordlist"]
            /\ UNCHANGED thread_result
    /\ UNCHANGED <<thread_wordlist, WORDLIST_CACHE, file_opens, threadRest>>

\* lines 31-32: the cache is looked at
ThreadCheckCache(t) ==
    /\ thread_pc[t] = "load_wordlist"
    /\ IF WORDLIST_CACHE # None
       THEN /\ thread_wordlist' = [thread_wordlist EXCEPT ![t] = WORDLIST_CACHE]
            /\ thread_pc' = [thread_pc EXCEPT ![t] = "match"]
       ELSE /\ thread_pc' = [thread_pc EXCEPT ![t] = "exists"]
            /\ UNCHANGED thread_wordlist
    /\ UNCHANGED <<thread_arg, thread_result, WORDLIST_CACHE, file_opens, threadRest>>

\* lines 44-48 and 91-96: no file: FileNotFoundError, which becomes False
ThreadExists(t) ==
    /\ thread_pc[t] = "exists"
    /\ IF data_file = None
       THEN /\ thread_result' = [thread_result EXCEPT ![t] = Some(FALSE)]
            /\ thread_pc' = [thread_pc EXCEPT ![t] = "returned"]
       ELSE /\ thread_pc' = [thread_pc EXCEPT ![t] = "read"]
            /\ UNCHANGED thread_result
    /\ UNCHANGED <<thread_arg, thread_wordlist, WORDLIST_CACHE, file_opens, threadRest>>

\* lines 51-57: the file is opened and read into the local set
ThreadRead(t) ==
    /\ thread_pc[t] = "read"
    /\ file_opens' = file_opens + 1
    /\ thread_wordlist' = [thread_wordlist EXCEPT ![t] = Some(ReadWordlist(data_file[1]))]
    /\ thread_pc' = [thread_pc EXCEPT ![t] = "assign"]
    /\ UNCHANGED <<thread_arg, thread_result, WORDLIST_CACHE, threadRest>>

\* lines 60-62: the local set becomes the cache and is returned
ThreadAssign(t) ==
    /\ thread_pc[t] = "assign"
    /\ WORDLIST_CACHE' = thread_wordlist[t]
    /\ thread_pc' = [thread_pc EXCEPT ![t] = "match"]
    /\ UNCHANGED <<thread_arg, thread_wordlist, thread_result, file_opens, threadRest>>

\* lines 98-110: the lookup in the set load_wordlist returned
ThreadMatch(t) ==
    /\ thread_pc[t] = "match"
    /\ thread_result' =
          [thread_result EXCEPT ![t] =
              Some(contains_dictionary_word(thread_arg[t], thread_wordlist[t],
                                            data_file).value)]
    /\ thread_pc' = [thread_pc EXCEPT ![t] = "returned"]
    /\ UNCHANGED <<thread_arg, thread_wordlist, WORDLIST_CACHE, file_opens, threadRest>>

NextThreads ==
    \E t \in Threads :
        \/ \E p \in WordlistInputs : ThreadCall(t, p)
        \/ ThreadCheckCache(t)
        \/ ThreadExists(t)
        \/ ThreadRead(t)
        \/ ThreadAssign(t)
        \/ ThreadMatch(t)

SpecThreads == InitThreads /\ [][NextThreads]_vars

\* ---- cmd_batch (commands.py:127-214) ----

\* the passwords a batch file is made of: a weak one, a strong one, and the
\* one whose analysis fails (OverflowError out of estimate_crack_time)
BatchPasswords == {PwPassword, PwStrong, PwLong}

\* lines 146-147: the stripped non-empty lines of the file
BatchFiles == UNION {[1..n -> BatchPasswords] : n \in 0..MaxBatch}

InitBatch ==
    /\ InitEnv
    /\ InitCommon
    /\ fn_call = None
    /\ fn_result = None

batchRest == <<breachVars, analyzeVars, envVars, fnVars, genVars, threadVars, wl_log>>

\* lines 144-165: the file is read; an empty one ends the command with 1
BatchCall(file, nb, ex) ==
    /\ pc = "idle"
    /\ passwords' = file
    /\ no_breach' = nb
    /\ export' = ex
    /\ batch_i' = 0
    /\ results' = <<>>
    /\ exported' = None
    /\ IF file = <<>>
       THEN /\ batch_stdout' = <<[text |-> "Error: No passwords found in file"]>>
            /\ batch_outcome' = Return(1)
            /\ pc' = "batch_done"
       ELSE /\ batch_stdout' = <<[text |-> "Analyzing passwords", total |-> Len(file)]>>
            /\ batch_outcome' = NoOutcome
            /\ pc' = "batch_loop"
    /\ UNCHANGED batchRest

\* lines 167-171: the next password is handed to analyze_password
BatchIterate ==
    /\ pc = "batch_loop"
    /\ batch_i < Len(passwords)
    /\ batch_i' = batch_i + 1
    /\ EnterAnalyze(passwords[batch_i + 1], ~no_breach)
    /\ UNCHANGED <<batchArgs, results, batch_stdout, exported, batch_outcome,
                   fnVars, genVars, threadVars, wl_log>>

\* what line 176 prints after password i of n
Progress(i, n) ==
    IF i % 10 = 0 \/ i = n THEN <<[text |-> "progress", done |-> i, total |-> n]>> ELSE <<>>

\* lines 172-176: the analysis returned: it is appended, progress is printed
BatchAppend ==
    /\ pc = "an_returned"
    /\ batch_i > 0
    /\ results' = Append(results, record[1])
    /\ batch_stdout' = batch_stdout \o Progress(batch_i, Len(passwords))
    /\ pc' = "batch_loop"
    /\ UNCHANGED <<batchArgs, batch_i, exported, batch_outcome, batchRest>>

\* variant: no handler inside the loop, the failure of one password reaches the
\* handler of lines 212-214 and ends the command
BatchItemFailed_Aborts ==
    /\ pc = "an_raised"
    /\ batch_i > 0
    /\ batch_stdout' = Append(batch_stdout,
                              [text |-> "Error during batch analysis", error |-> analysis_error])
    /\ batch_outcome' = Return(1)
    /\ pc' = "batch_done"
    /\ UNCHANGED <<batchArgs, batch_i, results, exported, batchRest>>

\* lines 177-179: the analysis raised an Exception: a warning, then `continue`
BatchItemFailed ==
    /\ pc = "an_raised"
    /\ batch_i > 0
    /\ batch_stdout' = Append(batch_stdout,
                              [text |-> "Warning: Failed to analyze password",
                               item |-> batch_i, error |-> analysis_error])
    /\ pc' = "batch_loop"
    /\ UNCHANGED <<batchArgs, batch_i, results, exported, batch_outcome, batchRest>>

\* lines 209-211: KeyboardInterrupt arrives between two analyses; it is no
\* Exception, so only the outer handler takes it
BatchInterrupt ==
    /\ pc = "batch_loop"
    /\ batch_stdout' = Append(batch_stdout, [text |-> "Operation cancelled by user"])
    /\ batch_outcome' = Return(1)
    /\ pc' = "batch_done"
    /\ UNCHANGED <<batchArgs, batch_i, results, exported, batchRest>>

\* lines 183-185: the loop ended with nothing analysed
BatchNoResults ==
    /\ pc = "batch_loop"
    /\ batch_i = Len(passwords)
    /\ results = <<>>
    /\ batch_stdout' = Append(batch_stdout,
                              [text |-> "Error: No passwords were successfully analyzed"])
    /\ batch_outcome' = Return(1)
    /\ pc' = "batch_done"
    /\ UNCHANGED <<batchArgs, batch_i, results, exported, batchRest>>

\* formatters.py:185-274: the totals of the summary
format_batch_summary(rs) ==
    [text |-> "BATCH ANALYSIS SUMMARY",
     total |-> Len(rs),
     ratings |-> [r \in {"weak", "moderate", "strong", "very_strong"} |->
                    Cardinality({k \in 1..Len(rs) : rs[k].strength_rating = r})],
     breached_count |-> Cardinality({k \in 1..Len(rs) : rs[k].breach_status.found})]

\* lines 187-207: the summary, then the export if one was asked for; a failing
\* export (ok = FALSE) ends the command with 1
BatchReport(ok) ==
    /\ pc = "batch_loop"
    /\ batch_i = Len(passwords)
    /\ results # <<>>
    /\ IF ~export
       THEN /\ batch_stdout' = Append(batch_stdout, format_batch_summary(results))
            /\ batch_outcome' = Return(0)
            /\ UNCHANGED exported
       ELSE IF ok
       THEN /\ batch_stdout' = batch_stdout \o
                    <<format_batch_summary(results), [text |-> "Results exported"]>>
            /\ exported' = Some(results)
            /\ batch_outcome' = Return(0)
       ELSE /\ batch_stdout' = batch_stdout \o
                    <<format_batch_summary(results),
                      [text |-> "Warning: Failed to export results"]>>
            /\ UNCHANGED exported
            /\ batch_outcome' = Return(1)
    /\ pc' = "batch_done"
    /\ UNCHANGED <<batchArgs, batch_i, results, batchRest>>

\* the command is run with --no-breach: check_breach is not entered, and what
\* it does inside analyze_password is the subject of Spec
NextBatch ==
    \/ \E file \in BatchFiles, ex \in BOOLEAN : BatchCall(file, TRUE, ex)
    \/ BatchIterate
    \/ AnalyzeSkipBreach
    \/ AnalyzeFinish
    \/ BatchAppend
    \/ BatchItemFailed
    \/ BatchInterrupt
    \/ BatchNoResults
    \/ \E ok \in BOOLEAN : BatchReport(ok)

SpecBatch == InitBatch /\ [][NextBatch]_vars

ApplyStrengthScore ==
    /\ fn_call[1].fn = "calculate_strength_score"
    /\ fn_result = None
    /\ fn_result' = Some(calculate_strength_score(fn_call[1].criteria, fn_call[1].entropy))
    /\ UNCHANGED <<pc, breachVars, analyzeVars, envVars, genVars, moreVars, fn_call>>

\* the rating is held in a one-element tuple like every other result
ApplyDetermineRating ==
    /\ fn_call[1].fn = "_determine_rating"
    /\ fn_result = None
    /\ fn_result' = Some(determine_rating(fn_call[1].score))
    /\ UNCHANGED <<pc, breachVars, analyzeVars, envVars, genVars, moreVars, fn_call>>

\* the part of a PasswordAnalysis that get_recommendations reads
AnalysisOf(call) ==
    [criteria_met |-> call.criteria,
     length |-> call.length,
     entropy_bits |-> call.entropy,
     breach_status |-> call.breach_status]

ApplyGetRecommendations ==
    /\ fn_call[1].fn = "get_recommendations"
    /\ fn_result = None
    /\ fn_result' = Some(get_recommendations(AnalysisOf(fn_call[1])))
    /\ UNCHANGED <<pc, breachVars, analyzeVars, envVars, genVars, moreVars, fn_call>>

ApplyCalculateEntropy ==
    /\ fn_call[1].fn = "calculate_entropy"
    /\ fn_result = None
    /\ fn_result' = Some(calculate_entropy(fn_call[1].password))
    /\ UNCHANGED <<pc, breachVars, analyzeVars, envVars, genVars, moreVars, fn_call>>

ApplyHasSequentialChars ==
    /\ fn_call[1].fn = "has_sequential_chars"
    /\ fn_result = None
    /\ fn_result' = Some(has_sequential_chars(fn_call[1].password, fn_call[1].min_length))
    /\ UNCHANGED <<pc, breachVars, analyzeVars, envVars, genVars, moreVars, fn_call>>

NextFn ==
    \/ ApplyStrengthScore
    \/ ApplyDetermineRating
    \/ ApplyGetRecommendations
    \/ ApplyCalculateEntropy
    \/ ApplyHasSequentialChars

SpecFn == InitFn /\ [][NextFn]_vars

----------------------------------------------------------------------------
(* Properties *)

\* the hash of the running call's password, recomputed from the password
UpperSha1 == [p \in AnalyzedPasswords |-> upper(sha1_hexdigest(p))]

OwnHash == UpperSha1[password]

OwnPrefix == SubSeq(OwnHash, 1, 5)

OwnSuffix == SubSeq(OwnHash, 6, 40)

\* the one request that may be sent for a 5-character prefix
RangeRequest(prefix5, to) ==
    [url |-> [base |-> "https://api.pwnedpasswords.com/range/", path |-> prefix5],
     headers |-> [UserAgent |-> "SecurePass-Toolkit-v1.0", AddPadding |-> "true"],
     timeout |-> to]

\* check_breach has ended after a successful range response
ScanReturned ==
    /\ pc = "cb_exit"
    /\ api_calls # <<>>
    /\ last_error = NoError
    /\ cb_outcome.kind = "return"

\* check_breach has ended after max_retries attempts that all failed
AllAttemptsFailed ==
    /\ pc = "cb_exit"
    /\ max_retries >= 1
    /\ Len(api_calls) = max_retries
    /\ last_error # NoError

\* C1: every call of _api_request and every request on the wire carries the
\* first 5 characters of the uppercase SHA-1 hex of the password and nothing
\* else that depends on the password: the request is the fixed range request
\* for that prefix, so it is the same for every password with that prefix.
C1_OnlyPrefixSent ==
    /\ \A i \in 1..Len(api_calls) : api_calls[i] = <<OwnPrefix, timeout>>
    /\ \A i \in 1..Len(wire) :
          /\ wire[i] = RangeRequest(OwnPrefix, timeout)
          /\ Len(wire[i].url.path) = 5
          /\ \A q \in Passwords :
                SubSeq(UpperSha1[q], 1, 5) = OwnPrefix
                    => wire[i] = RangeRequest(SubSeq(UpperSha1[q], 1, 5), timeout)

\* C1 witness: two requests were sent for a password whose prefix is shared
\* by another password with a different suffix
C1_Witness ==
    /\ password = PwRepeated
    /\ Len(wire) = 2
    /\ SubSeq(upper(sha1_hexdigest(PwKeyboard)), 1, 5) = hash_prefix
    /\ SubSeq(upper(sha1_hexdigest(PwKeyboard)), 6, 40) # hash_suffix

\* position of the first entry of the parsed list whose suffix is exactly s
FirstMatch(list, s) ==
    CHOOSE i \in 1..Len(list) :
        list[i].suffix = s /\ \A j \in 1..(i - 1) : list[j].suffix # s

\* C2: after a successful response, the result is (TRUE, count of the first
\* returned suffix equal, case-sensitively, to the 35-character uppercase
\* suffix of the password) when there is one and (FALSE, 0) when there is none.
C2_ExactSuffixMatch ==
    ScanReturned =>
        /\ Len(OwnSuffix) = 35
        /\ IF \E i \in 1..Len(suffixes) : suffixes[i].suffix = OwnSuffix
           THEN cb_outcome.value =
                    <<TRUE, suffixes[FirstMatch(suffixes, OwnSuffix)].count>>
           ELSE cb_outcome.value = <<FALSE, 0>>

\* C2 witness: the response held the suffix in lowercase, then the exact
\* suffix; the count of the exact one came back
C2_Witness ==
    /\ ScanReturned
    /\ Len(suffixes) = 2
    /\ suffixes[1].suffix = lower(OwnSuffix)
    /\ suffixes[1].suffix # OwnSuffix
    /\ suffixes[2].suffix = OwnSuffix
    /\ cb_outcome.value = <<TRUE, 3861493>>

\* the waits 1, 2, 4, ... after the first k failed attempts
Backoff(k) == [i \in 1..k |-> 2 ^ (i - 1)]

C3_State ==
    /\ Len(api_calls) <= max_retries
    /\ (AllAttemptsFailed /\ cb_outcome.kind = "return") => Len(api_calls) = max_retries
    /\ pc \in {"cb_for", "cb_try"} => Len(api_calls) = attempt /\ sleeps = Backoff(attempt)
    /\ pc \in {"cb_scan", "cb_except"} =>
          Len(api_calls) = attempt + 1 /\ sleeps = Backoff(attempt)
    /\ pc = "cb_sleep" =>
          /\ Len(api_calls) = attempt + 1
          /\ attempt + 1 < max_retries
          /\ sleeps = Backoff(attempt + 1)
    /\ (pc = "cb_exit" /\ cb_outcome.kind = "return" /\ api_calls # <<>>) =>
          sleeps = Backoff(Len(api_calls) - 1)
    /\ (pc = "cb_exit" /\ api_calls = <<>>) => sleeps = <<>>

\* once an attempt has succeeded no request and no wait follows
C3_Step ==
    (api_calls # <<>> /\ last_error = NoError) =>
        (api_calls' = api_calls /\ wire' = wire /\ sleeps' = sleeps)

C4_FailOpen ==
    AllAttemptsFailed => cb_outcome = Return(<<FALSE, 0>>)

\* C4 witness: both attempts of a call with max_retries = 2 failed
C4_Witness ==
    /\ AllAttemptsFailed
    /\ max_retries = 2
    /\ caller = "direct"
    /\ last_error.type = "RequestException"
    /\ cb_outcome.kind = "return"

\* analyze_password has returned after a breach check in which every attempt
\* ended in a network or service error
AnalysisAfterNetworkFailure ==
    /\ pc = "an_returned"
    /\ check_breach_status
    /\ Len(api_calls) = max_retries
    /\ last_error.type = "RequestException"
    /\ cb_outcome.kind = "return"

\* C5: when the breach lookup fails with a network or service error on every
\* attempt, the record of analyze_password reports the breach status as not
\* checked: checked = FALSE, found = FALSE, occurrence_count = 0.
C5_NotCheckedAfterFailure ==
    AnalysisAfterNetworkFailure => record[1].breach_status = NotChecked

C7_NoRequest ==
    /\ (pc # "idle" /\ password = <<>>) =>
          /\ api_calls = <<>> /\ wire = <<>> /\ sleeps = <<>>
          /\ pc \notin {"cb_for", "cb_try", "cb_scan", "cb_except", "cb_sleep"}
          /\ pc = "cb_exit" => cb_outcome = Return(<<FALSE, 0>>)
    /\ (pc # "idle" /\ ~check_breach_status) =>
          /\ api_calls = <<>> /\ wire = <<>>
          /\ caller = "none"
          /\ pc = "an_returned" => record[1].breach_status = NotChecked

\* C7 witness: check_breach has returned for the empty password
C7_Witness ==
    /\ pc = "cb_exit"
    /\ caller = "analyze"
    /\ password = <<>>
    /\ cb_outcome = Return(<<FALSE, 0>>)

\* the entropy bonus of the scoring rule, thresholds in micro-bits
Bonus(entropy) ==
    CASE entropy >= 70000000 -> 20
      [] entropy >= 60000000 /\ entropy < 70000000 -> 15
      [] entropy >= 50000000 /\ entropy < 60000000 -> 10
      [] entropy >= 40000000 /\ entropy < 50000000 -> 5
      [] entropy < 40000000 -> 0

Min(a, b) == IF a <= b THEN a ELSE b

ScoreApplied ==
    /\ fn_result # None
    /\ fn_call[1].fn = "calculate_strength_score"

\* C8: the score is min(10 * (number of criteria met) + bonus, 100) with the
\* bonus 20, 15, 10, 5 from 70, 60, 50, 40 bits (inclusive) and 0 below; it is
\* 100 for 8 criteria and 70 bits or more, 0 for none and no entropy, and
\* always within 0..100.
C8_ScoreFormula ==
    ScoreApplied =>
        LET c == fn_call[1].criteria
            e == fn_call[1].entropy
            met == Cardinality({k \in CriteriaNames : c[k]})
        IN  /\ fn_result[1] = Min(10 * met + Bonus(e), 100)
            /\ fn_result[1] \in 0..100
            /\ (met = 8 /\ e >= 70000000) => fn_result[1] = 100
            /\ (met = 0 /\ e <= 0) => fn_result[1] = 0

\* C8 witness: seven criteria met at exactly 70 bits score 90
C8_Witness ==
    /\ ScoreApplied
    /\ Cardinality({k \in CriteriaNames : fn_call[1].criteria[k]}) = 7
    /\ fn_call[1].entropy = 70000000
    /\ fn_result[1] = 90

RatingApplied ==
    /\ fn_result # None
    /\ fn_call[1].fn = "_determine_rating"

\* C9: the rating is weak below 40, moderate from 40 to 69, strong from 70 to
\* 89 and very_strong from 90.
C9_RatingBands ==
    RatingApplied =>
        LET s == fn_call[1].score
        IN  /\ s < 40 => fn_result[1] = "weak"
            /\ (40 <= s /\ s < 70) => fn_result[1] = "moderate"
            /\ (70 <= s /\ s < 90) => fn_result[1] = "strong"
            /\ s >= 90 => fn_result[1] = "very_strong"

\* C9 witness: the score 40 is rated moderate
C9_Witness ==
    /\ RatingApplied
    /\ fn_call[1].score = 40
    /\ fn_result[1] = "moderate"

C10_State ==
    (pc = "an_returned" /\ record # None) =>
        /\ record[1].strength_score =
              calculate_strength_score(record[1].criteria_met, record[1].entropy_bits)
        /\ record[1].strength_rating = determine_rating(record[1].strength_score)

\* two analyses in a row
C10_Step ==
    (/\ record # None
     /\ record' # None
     /\ record'[1].criteria_met = record[1].criteria_met
     /\ record'[1].entropy_bits = record[1].entropy_bits) =>
        /\ record'[1].strength_score = record[1].strength_score
        /\ record'[1].strength_rating = record[1].strength_rating

\* C10: in every record the score is calculate_strength_score of its own
\* criteria and entropy and the rating is the rating of that score; two
\* analyses with equal criteria and entropy have equal score and rating,
\* whatever the breach result and the keyboard or repeated-character content.
C10_ScoreDerived == []C10_State /\ [][C10_Step]_vars

\* C10 witness: the analysis of a repeated-character password, not found in a
\* breach, has returned; the analysis of a keyboard-walk password with the
\* same criteria and entropy, found in a breach, has the same score
C10_Witness ==
    /\ pc = "an_finish"
    /\ record # None
    /\ record[1].password_hash = sha256_hexdigest(PwRepeated)
    /\ has_repeated_chars(PwRepeated, 3) /\ ~is_keyboard_pattern(PwRepeated)
    /\ ~record[1].breach_status.found
    /\ password = PwKeyboard
    /\ is_keyboard_pattern(PwKeyboard) /\ ~has_repeated_chars(PwKeyboard, 3)
    /\ partial[1].breach_status[1].found
    /\ partial[1].criteria = record[1].criteria_met
    /\ partial[1].entropy_bits = record[1].entropy_bits
    /\ partial[1].strength_score = record[1].strength_score
    /\ partial[1].strength_rating = record[1].strength_rating

----------------------------------------------------------------------------
(* The record returned by analyze_password *)

\* analyze_password has just returned the record of the current password
Returned == pc = "an_returned" /\ record # None

\* C11: in every record returned by analyze_password, found = TRUE implies
\* checked = TRUE
C11_FoundImpliesChecked ==
    record # None =>
        (record[1].breach_status.found => record[1].breach_status.checked)

\* C11 witness: a record that reports the password as found in a breach
C11_Witness ==
    /\ Returned
    /\ record[1].breach_status.found
    /\ record[1].breach_status.occurrence_count > 0

PasswordAnalysisFields ==
    {"password_hash", "timestamp", "strength_score", "strength_rating", "length",
     "entropy_bits", "character_pool_size", "criteria_met", "breach_status",
     "recommendations", "estimated_crack_time"}

RecommendationKinds ==
    {"length_critical", "length_increase", "add_lowercase", "add_uppercase",
     "add_digits", "add_symbols", "common_pattern", "dictionary_word",
     "sequential_chars", "breach_critical", "low_entropy", "meets_best_practices"}

HexDigits == {"0","1","2","3","4","5","6","7","8","9","a","b","c","d","e","f"}

\* C12: the record has the eleven fields of PasswordAnalysis and none of them
\* holds the plaintext password: the only text derived from the password is
\* password_hash, which is the 64 hexadecimal digits of its SHA-256 and neither
\* equals nor contains the password; every other field is a number, a truth
\* value, a rating, a fixed message with a count, or a formatted duration
C12_NoPlaintext ==
    Returned =>
        LET r == record[1]
        IN  /\ DOMAIN r = PasswordAnalysisFields
            /\ r.password_hash = sha256_hexdigest(password)
            /\ Len(r.password_hash) = 64
            /\ \A i \in 1..64 : r.password_hash[i] \in HexDigits
            /\ r.password_hash # password
            /\ password # <<>> => ~Contains(r.password_hash, password)
            /\ r.timestamp \in Nat
            /\ r.strength_score \in 0..100
            /\ r.strength_rating \in {"weak", "moderate", "strong", "very_strong"}
            /\ r.length \in Nat
            /\ r.entropy_bits \in Nat
            /\ r.character_pool_size \in Nat
            /\ r.criteria_met \in [CriteriaNames -> BOOLEAN]
            /\ r.breach_status \in [checked : BOOLEAN, found : BOOLEAN,
                                    occurrence_count : Nat]
            /\ \A i \in 1..Len(r.recommendations) :
                   /\ r.recommendations[i].kind \in RecommendationKinds
                   /\ r.recommendations[i].count \in Nat
            /\ DOMAIN r.estimated_crack_time =
                   {"online_attack_100_per_second", "offline_attack_10B_per_second"}

\* C12 witness: a record was returned for a password made of hexadecimal
\* digits only
C12_Witness ==
    /\ Returned
    /\ password = PwShort
    /\ record[1].password_hash = sha256_hexdigest(PwShort)

----------------------------------------------------------------------------
(* generate_password *)

AmbiguousChars == {"0", "O", "1", "l", "I"}

\* the characters a selected class contributes
ClassSet(class) == IF avoid_ambiguous THEN class \ AmbiguousChars ELSE class

\* the selected classes, letters and digits after ambiguity filtering
SelectedClasses ==
    (IF use_lowercase THEN {ClassSet(ascii_lowercase)} ELSE {})
        \cup (IF use_uppercase THEN {ClassSet(ascii_uppercase)} ELSE {})
        \cup (IF use_digits THEN {ClassSet(digits)} ELSE {})
        \cup (IF use_symbols THEN {punctuation} ELSE {})

ValidLength == length.type = "int" /\ length.value >= 8 /\ length.value <= 128

ValidRequest == ValidLength /\ SelectedClasses # {}

GenEnded == pc = "gen_exit"

GenReturned == GenEnded /\ gen_outcome.kind = "return"

\* C13: for a valid request the returned password has at least one character
\* of each selected class (after ambiguity filtering)
C13_EachClassPresent ==
    (GenEnded /\ ValidRequest) =>
        /\ gen_outcome.kind = "return"
        /\ \A class \in SelectedClasses :
               \E i \in 1..Len(gen_outcome.value) : gen_outcome.value[i] \in class

\* C13 witness: a password with all four classes, ambiguity filtered, where
\* every pool draw gave the same lowercase letter and the shuffle moved the
\* characters
C13_Witness ==
    /\ GenReturned
    /\ Cardinality(SelectedClasses) = 4
    /\ avoid_ambiguous
    /\ length.value = 8
    /\ gen_outcome.value[1] \notin ascii_lowercase
    /\ Cardinality({i \in 1..8 : gen_outcome.value[i] \in ascii_lowercase}) = 5

\* how often c occurs in s
Count(s, c) == Cardinality({i \in 1..Len(s) : s[i] = c})

SamePermuted(s, t) ==
    /\ Len(s) = Len(t)
    /\ \A c \in CharsOf(s) \cup CharsOf(t) : Count(s, c) = Count(t, c)

C14_State ==
    /\ (pc = "gen_fill" /\ ValidRequest) =>
           /\ Len(required_chars) = Cardinality(SelectedClasses)
           /\ Len(password_chars) <= length.value
           /\ Len(entropy_source) = Len(password_chars)
    /\ (GenEnded /\ ValidRequest) =>
           /\ gen_outcome.kind = "return"
           /\ Len(gen_outcome.value) = length.value
           /\ Len(entropy_source) = length.value

C14_Step ==
    (pc = "gen_fill" /\ pc' = "gen_exit") =>
        /\ SamePermuted(password_chars, password_chars')
        /\ gen_outcome'.value = password_chars'

\* C14: for a length in 8..128 and a non-empty selection the returned string
\* has exactly that length: one draw per selected class, length minus the
\* number of classes draws from the pool, and a shuffle that only reorders
C14_ExactLength == []C14_State /\ [][C14_Step]_vars

\* C14 witness: a password of length 128 was returned in a changed order
C14_Witness ==
    /\ GenReturned
    /\ length.value = 128
    /\ Len(gen_outcome.value) = 128
    /\ Cardinality(SelectedClasses) = 3
    /\ gen_outcome.value[1] # required_chars[1]

\* C15: every character of a generated password belongs to a selected class,
\* and with avoid_ambiguous none of 0, O, 1, l, I appears
C15_OnlyPoolChars ==
    GenReturned =>
        \A i \in 1..Len(gen_outcome.value) :
            /\ gen_outcome.value[i] \in UNION SelectedClasses
            /\ avoid_ambiguous => gen_outcome.value[i] \notin AmbiguousChars

\* C15 witness: digits and symbols only, ambiguity avoided; without it the
\* same draws give the digit 1
C15_Witness ==
    /\ GenReturned
    /\ ~use_lowercase /\ ~use_uppercase /\ use_digits /\ use_symbols
    /\ avoid_ambiguous
    /\ entropy_source[1] = 11
    /\ choice(DIGITS, entropy_source[1]) = "1"
    /\ required_chars[1] = "5"

C16_State ==
    /\ (pc # "idle" /\ ~ValidRequest) =>
           /\ entropy_source = <<>>
           /\ ~shuffled
           /\ password_chars = <<>>
           /\ gen_outcome.kind # "return"
    /\ (GenEnded /\ ~ValidRequest) =>
           /\ gen_outcome.kind = "raise"
           /\ gen_outcome.exc =
                  IF length.type # "int"
                  THEN "ValueError: Length must be an integer"
                  ELSE IF length.value < 8
                  THEN "ValueError: Password length must be at least 8 characters"
                  ELSE IF length.value > 128
                  THEN "ValueError: Password length must not exceed 128 characters"
                  ELSE "ValueError: At least one character set must be selected"
    /\ gen_outcome.kind = "raise" => entropy_source = <<>> /\ ~shuffled

C16_Step == pc # "idle" => genArgs' = genArgs

\* C16: a request whose length is not an integer, is below 8 or above 128, or
\* that selects no class ends in a ValueError with no random value drawn, and
\* the arguments are never changed to make the request valid
C16_ValidationFails == []C16_State /\ [][C16_Step]_vars

\* C16 witness: length 128 with no class selected failed at the pool check
C16_Witness ==
    /\ GenEnded
    /\ length = IntLength(128)
    /\ SelectedClasses = {}
    /\ gen_outcome = Raise("ValueError: At least one character set must be selected")

----------------------------------------------------------------------------
(* get_recommendations *)

\* get_recommendations has been applied to the drawn analysis
RecsApplied ==
    /\ fn_call # None
    /\ fn_call[1].fn = "get_recommendations"
    /\ fn_result # None

Affirmative == [kind |-> "meets_best_practices", count |-> 0]

\* the fixed order of the checks
CheckOrder ==
    <<"length", "add_lowercase", "add_uppercase", "add_digits", "add_symbols",
      "common_pattern", "dictionary_word", "sequential_chars", "breach_critical",
      "low_entropy">>

\* the check a recommendation belongs to: both length messages belong to the
\* length check
ItemOf(rec) ==
    IF rec.kind \in {"length_critical", "length_increase"} THEN "length"
    ELSE rec.kind

Position(item) == CHOOSE k \in 1..Len(CheckOrder) : CheckOrder[k] = item

IsOrderedSubsequence(recs) ==
    /\ \A i \in 1..Len(recs) : \E k \in 1..Len(CheckOrder) : CheckOrder[k] = ItemOf(recs[i])
    /\ \A i, j \in 1..Len(recs) :
           i < j => Position(ItemOf(recs[i])) < Position(ItemOf(recs[j]))

CheckFailed(call, item) ==
    CASE item = "length" -> ~call.criteria["min_length"]
      [] item = "add_lowercase" -> ~call.criteria["has_lowercase"]
      [] item = "add_uppercase" -> ~call.criteria["has_uppercase"]
      [] item = "add_digits" -> ~call.criteria["has_digits"]
      [] item = "add_symbols" -> ~call.criteria["has_symbols"]
      [] item = "common_pattern" -> ~call.criteria["no_common_patterns"]
      [] item = "dictionary_word" -> ~call.criteria["no_dictionary_words"]
      [] item = "sequential_chars" -> ~call.criteria["no_sequential_chars"]
      [] item = "breach_critical" -> call.breach_status.found
      [] item = "low_entropy" -> call.entropy < 40000000

PresentIffFailed(call, recs) ==
    \A k \in 1..Len(CheckOrder) :
        (\E i \in 1..Len(recs) : ItemOf(recs[i]) = CheckOrder[k])
            <=> CheckFailed(call, CheckOrder[k])

NothingFailed(call) ==
    \A k \in 1..Len(CheckOrder) : ~CheckFailed(call, CheckOrder[k])

\* C17 as stated: the recommendations of any analysis are a subsequence, each
\* item at most once, of the fixed order, an item present exactly when its
\* check failed
C17_SubsequenceOfChecks ==
    RecsApplied =>
        /\ IsOrderedSubsequence(fn_result[1])
        /\ PresentIffFailed(fn_call[1], fn_result[1])

\* C17 amended: when no check failed the list is the single affirmative
\* message, which is none of the ten items; otherwise it is a subsequence,
\* each item at most once, of the fixed order, an item present exactly when
\* its check failed
C17_SubsequenceOrAffirmative ==
    RecsApplied =>
        IF NothingFailed(fn_call[1])
        THEN fn_result[1] = <<Affirmative>>
        ELSE /\ IsOrderedSubsequence(fn_result[1])
             /\ PresentIffFailed(fn_call[1], fn_result[1])

\* C17 witness: every check failed and all ten items were returned
C17_Witness ==
    /\ RecsApplied
    /\ Len(fn_result[1]) = 10
    /\ fn_result[1][1].kind = "length_increase"
    /\ fn_result[1][9].kind = "breach_critical"
    /\ fn_result[1][10].kind = "low_entropy"

CriteriaItems ==
    {"length", "add_lowercase", "add_uppercase", "add_digits", "add_symbols",
     "common_pattern", "dictionary_word", "sequential_chars"}

\* C18 as stated: when the password is found in a breach, the warning with
\* the occurrence count is the first element of the list
C18_BreachWarningFirst ==
    (RecsApplied /\ fn_call[1].breach_status.found) =>
        fn_result[1][1] =
            [kind |-> "breach_critical",
             count |-> fn_call[1].breach_status.occurrence_count]

\* C18 amended: when the password is found in a breach, the warning with the
\* occurrence count is in the list exactly once, after every criteria
\* recommendation and before the low-entropy one; when it is not found there
\* is no such warning
C18_BreachWarningAfterCriteria ==
    RecsApplied =>
        LET recs == fn_result[1]
            at == {i \in 1..Len(recs) : recs[i].kind = "breach_critical"}
        IN  IF fn_call[1].breach_status.found
            THEN /\ Cardinality(at) = 1
                 /\ \A i \in at :
                        /\ recs[i].count = fn_call[1].breach_status.occurrence_count
                        /\ \A j \in 1..Len(recs) :
                               /\ j < i => ItemOf(recs[j]) \in CriteriaItems
                               /\ j > i => recs[j].kind = "low_entropy"
                        /\ i = 1 + Cardinality({c \in CriteriaNames :
                                                    ~fn_call[1].criteria[c]})
            ELSE at = {}

\* C18 witness: the warning with its count is the third element, behind two
\* criteria recommendations and ahead of the low-entropy one
C18_Witness ==
    /\ RecsApplied
    /\ fn_call[1].breach_status.occurrence_count = 3861493
    /\ Len(fn_result[1]) = 4
    /\ ItemOf(fn_result[1][1]) \in CriteriaItems
    /\ fn_result[1][3] = [kind |-> "breach_critical", count |-> 3861493]
    /\ fn_result[1][4].kind = "low_entropy"

\* C19: the list is never empty; it is the single affirmative message exactly
\* when all 8 criteria are met, the password is not found in a breach and
\* the entropy is at least 40 bits; the affirmative message never comes with
\* another recommendation
C19_NeverEmpty ==
    RecsApplied =>
        LET recs == fn_result[1]
            call == fn_call[1]
        IN  /\ recs # <<>>
            /\ recs = <<Affirmative>> <=>
                   /\ \A c \in CriteriaNames : call.criteria[c]
                   /\ ~call.breach_status.found
                   /\ call.entropy >= 40000000
            /\ (\E i \in 1..Len(recs) : recs[i] = Affirmative) => Len(recs) = 1

\* C19 witness: all criteria met at exactly 40 bits, breach check not done
C19_Witness ==
    /\ RecsApplied
    /\ fn_result[1] = <<Affirmative>>
    /\ fn_call[1].entropy = 40000000
    /\ ~fn_call[1].breach_status.checked

----------------------------------------------------------------------------
(* calculate_entropy *)

EntropyApplied ==
    /\ fn_call # None
    /\ fn_call[1].fn = "calculate_entropy"
    /\ fn_result # None

Present(p, class) == \E i \in 1..Len(p) : p[i] \in class

\* 26, 26, 10 and 32 for the classes that occur in p
PoolByPresence(p) ==
    (IF Present(p, ascii_lowercase) THEN 26 ELSE 0)
        + (IF Present(p, ascii_uppercase) THEN 26 ELSE 0)
        + (IF Present(p, digits) THEN 10 ELSE 0)
        + (IF Present(p, punctuation) THEN 32 ELSE 0)

\* C20: the pool size is the sum of the sizes of the classes present, by
\* presence and not by count; calculate_entropy returns (0.0, 0) exactly when
\* the password is empty or has no character of the four classes, and a
\* positive entropy otherwise
C20_PoolByPresence ==
    EntropyApplied =>
        LET p == fn_call[1].password
            entropy_bits == fn_result[1][1]
            pool_size == fn_result[1][2]
            classless ==
                ~Present(p, ascii_lowercase \cup ascii_uppercase \cup digits
                                \cup punctuation)
        IN  /\ pool_size = PoolByPresence(p)
            /\ pool_size = get_character_pool_size(p)
            /\ fn_result[1] = <<0, 0>> <=> (p = <<>> \/ classless)
            /\ ~(p = <<>> \/ classless) => entropy_bits > 0

\* C20 witness: one digit, a space and a letter give the pool 36
C20_Witness ==
    /\ EntropyApplied
    /\ fn_call[1].password = <<"7", " ", "a">>
    /\ fn_result[1] = <<3 * 5169925, 36>>

----------------------------------------------------------------------------
(* has_sequential_chars *)

SequentialApplied ==
    /\ fn_call # None
    /\ fn_call[1].fn = "has_sequential_chars"
    /\ fn_result # None

\* the differences of code point between neighbours: one entry per adjacent pair
Steps(p) == [j \in 1..(Len(p) - 1) |-> ord(p[j + 1]) - ord(p[j])]

\* n consecutive characters are n - 1 consecutive pairs: the pairs k..k+n-2
\* all step by d
HasRun(p, n, d) ==
    \E k \in 1..(Len(p) - n + 1) : \A j \in k..(k + n - 2) : Steps(p)[j] = d

\* C21: has_sequential_chars(p, n) is true exactly when p has n consecutive
\* characters whose adjacent pairs all increase by 1 in code point, or n
\* whose adjacent pairs all decrease by 1; it is false when p is empty or
\* shorter than n.
C21_SequentialRuns ==
    SequentialApplied =>
        LET p == fn_call[1].password
            n == fn_call[1].min_length
            found == fn_result[1]
        IN  /\ found <=> (p # <<>> /\ Len(p) >= n /\ (HasRun(p, n, 1) \/ HasRun(p, n, -1)))
            /\ (p = <<>> \/ Len(p) < n) => ~found
            /\ (p = <<"a", "b", "c">> /\ n = 3) => found
            /\ (p = <<"c", "b", "a">> /\ n = 3) => found
            /\ (p = <<"a", "1", "b", "2", "c", "3">> /\ n = 3) => ~found

\* C21 witness: the descending run "cba" is found with the window of 3
C21_Witness ==
    /\ SequentialApplied
    /\ fn_call[1].password = <<"c", "b", "a">>
    /\ fn_call[1].min_length = 3
    /\ fn_result[1] = TRUE

----------------------------------------------------------------------------
(* the wordlist *)

\* the entries of the file the model is run with, as load_wordlist keeps them
Entries == {<<"d","r","a","g","o","n">>, <<"s","s","w","o">>, <<"a","b","c">>}

\* w occurs in q as a run of neighbouring characters
IsSubstring(w, q) ==
    \E i \in 1..(Len(q) - Len(w) + 1) : SubSeq(q, i, i + Len(w) - 1) = w

ContainsCalls == {i \in 1..Len(wl_log) : wl_log[i].fn = "contains_dictionary_word"}

LoadCalls == {i \in 1..Len(wl_log) : wl_log[i].fn = "load_wordlist"}

\* C22: with a loaded wordlist contains_dictionary_word(p) is true exactly when
\* the lowercased p is an entry, or an entry of at least 4 characters occurs
\* in the lowercased p; a shorter entry matches only as the whole password,
\* and the empty password is never a dictionary word.
C22_DictionaryMatch ==
    data_file # None =>
        \A i \in ContainsCalls :
            LET p == wl_log[i].password
                q == lower(p)
            IN  /\ wl_log[i].raised = "none"
                /\ wl_log[i].value <=>
                      \/ q \in Entries
                      \/ \E w \in Entries : Len(w) >= 4 /\ IsSubstring(w, q)
                /\ p = <<>> => ~wl_log[i].value
                /\ (q \notin Entries
                        /\ \A w \in Entries : IsSubstring(w, q) => Len(w) < 4)
                      => ~wl_log[i].value

\* C22 witness: "xabcx" holds the 3-character entry and is no dictionary word,
\* "abc" is one, and so is a password that holds "dragon" in upper case
C22_Witness ==
    /\ data_file # None
    /\ Len(wl_log) = 3
    /\ wl_log[1].password = <<"x","a","b","c","x">> /\ wl_log[1].value = FALSE
    /\ wl_log[2].password = <<"a","b","c">> /\ wl_log[2].value = TRUE
    /\ wl_log[3].password = <<"x","D","R","A","G","O","N","1">> /\ wl_log[3].value = TRUE

\* the call needs the wordlist: every call but the check of the empty password
NeedsWordlist(call) == call.fn = "load_wordlist" \/ call.password # <<>>

\* C23: with the file present it is read exactly once, by the first call that
\* needs the wordlist; every later call reads nothing, and every load_wordlist
\* call returns the same set, the one kept in the cache.
C23_ReadOnce ==
    data_file # None =>
        LET needing == {i \in 1..Len(wl_log) : NeedsWordlist(wl_log[i])}
        IN  /\ file_opens = (IF needing = {} THEN 0 ELSE 1)
            /\ (needing = {}) <=> (WORDLIST_CACHE = None)
            /\ \A i \in 1..Len(wl_log) :
                  wl_log[i].opens =
                      (IF i \in needing /\ \A j \in needing : i <= j THEN 1 ELSE 0)
            /\ \A i \in LoadCalls :
                  /\ wl_log[i].raised = "none"
                  /\ wl_log[i].value = Entries
                  /\ WORDLIST_CACHE = Some(wl_log[i].value)

\* C23 witness: three calls, the first one not needing the file, the second
\* one reading it, the third one served from the cache
C23_Witness ==
    /\ data_file # None
    /\ Len(wl_log) = 3
    /\ wl_log[1].password = <<>> /\ wl_log[1].fn = "contains_dictionary_word"
    /\ wl_log[1].opens = 0
    /\ wl_log[2].fn = "contains_dictionary_word" /\ wl_log[2].opens = 1
    /\ wl_log[3].fn = "load_wordlist" /\ wl_log[3].opens = 0
    /\ wl_log[3].value = Entries
    /\ file_opens = 1

\* C24: with the wordlist file missing, contains_dictionary_word returns FALSE
\* for every password and raises nothing, so no_dictionary_words is reported
\* as met and the analysis goes on (what can still end it is the OverflowError
\* of the crack-time estimate, never FileNotFoundError); the cache stays unset.
C24_MissingFile ==
    data_file = None =>
        /\ WORDLIST_CACHE = None
        /\ file_opens = 0
        /\ \A p \in AnalyzedPasswords :
              LET r == contains_dictionary_word(p, WORDLIST_CACHE, data_file)
              IN  r.raised = "none" /\ r.value = FALSE /\ r.cache = None
        /\ partial # None => partial[1].criteria.no_dictionary_words
        /\ pc = "an_returned" => record[1].criteria_met.no_dictionary_words
        /\ analysis_error \in {"none", "OverflowError"}
        /\ pc = "an_raised" =>
              estimate_crack_time_raises(calculate_entropy(password)[1])

\* C24 witness: "password" holds an entry of the wordlist, and its analysis
\* without the file says it holds no dictionary word
C24_Witness ==
    /\ data_file = None
    /\ pc = "an_returned"
    /\ password = PwPassword
    /\ record[1].criteria_met.no_dictionary_words
    /\ contains_dictionary_word(PwPassword, None, Some(WordlistFile)).value
    /\ WORDLIST_CACHE = None

\* C25: when several threads call the dictionary check before the cache is
\* populated, the wordlist file is loaded by at most one of them, and all of
\* them work on the same set.
C25_LoadedAtMostOnce ==
    /\ file_opens <= 1
    /\ \A t, u \in Threads :
          (thread_wordlist[t] # None /\ thread_wordlist[u] # None)
              => thread_wordlist[t] = thread_wordlist[u]

----------------------------------------------------------------------------
(* cmd_batch *)

\* the command was cancelled
Interrupted ==
    \E k \in 1..Len(batch_stdout) : batch_stdout[k].text = "Operation cancelled by user"

\* the password whose analysis fails: 218 characters, over 1024 bits
AnalysisFails(p) == Len(p) >= 218

AnalysisSucceeds(p) == ~AnalysisFails(p)

\* how many passwords of the file the loop is through with
Handled == IF pc \in {"batch_loop", "batch_done"} THEN batch_i ELSE batch_i - 1

\* the items a failure was reported for
WarnedItems ==
    {batch_stdout[k].item :
        k \in {j \in 1..Len(batch_stdout) :
                  batch_stdout[j].text = "Warning: Failed to analyze password"}}

\* C26: a failure while analysing password i of a batch is reported for that
\* item only: every other password is still analysed, and the result list
\* holds the successful analyses in input order.
C26_FailureIsPerItem ==
    (pc # "idle" /\ passwords # <<>>) =>
        LET succeeded == SelectSeq(SubSeq(passwords, 1, Handled), AnalysisSucceeds)
        IN  /\ Len(results) = Len(succeeded)
            /\ \A k \in 1..Len(results) :
                  /\ results[k].password_hash = sha256_hexdigest(succeeded[k])
                  /\ results[k].length = Len(succeeded[k])
            /\ WarnedItems = {k \in 1..Handled : AnalysisFails(passwords[k])}
            /\ (pc = "batch_done" /\ ~Interrupted) =>
                  /\ batch_i = Len(passwords)
                  /\ results # <<>> =>
                        \E k \in 1..Len(batch_stdout) :
                            batch_stdout[k] = format_batch_summary(results)

\* C26 witness: the second of three passwords failed, the first and the third
\* are in the results, and the command ended with 0
C26_Witness ==
    /\ pc = "batch_done"
    /\ passwords = <<PwPassword, PwLong, PwStrong>>
    /\ WarnedItems = {2}
    /\ Len(results) = 2
    /\ results[1].password_hash = sha256_hexdigest(PwPassword)
    /\ results[2].password_hash = sha256_hexdigest(PwStrong)
    /\ batch_outcome = Return(0)

\* C27: a batch interrupted between two analyses stops, and the analyses
\* produced so far are reported, by the summary or by the export.
C27_PartialResultsReported ==
    (pc = "batch_done" /\ Interrupted /\ results # <<>>) =>
        \/ \E k \in 1..Len(batch_stdout) :
               batch_stdout[k] = format_batch_summary(results)
        \/ exported = Some(results)

----------------------------------------------------------------------------
(* check_breach: the value returned *)

\* a (breached, count) pair
IsPair(v) == Len(v) = 2 /\ v[1] \in BOOLEAN /\ v[2] \in Nat

\* C28: check_breach returns a pair (breached, count) for every non-empty
\* password and every max_retries >= 0; with max_retries = 0 no request is
\* attempted and the pair is (FALSE, 0).
C28_AlwaysAPair ==
    (caller = "direct" /\ pc = "cb_exit" /\ password # <<>> /\ cb_outcome.kind = "return") =>
        /\ IsPair(cb_outcome.value)
        /\ max_retries = 0 => (cb_outcome.value = <<FALSE, 0>> /\ api_calls = <<>>)

----------------------------------------------------------------------------
(* check_breach: malformed response lines *)

WithColon(line) == ":" \in {line[i] : i \in 1..Len(line)}

\* the text before and after the first colon of a line that has one
BeforeColon(line) ==
    LET i == CHOOSE k \in 1..Len(line) : line[k] = ":" /\ ~WithColon(SubSeq(line, 1, k - 1))
    IN  SubSeq(line, 1, i - 1)

AfterColon(line) ==
    SubSeq(line, Len(BeforeColon(line)) + 2, Len(line))

\* a run of decimal digits and nothing else
IsDecimal(s) == s # <<>> /\ \A i \in 1..Len(s) : s[i] \in digits

\* the lines of the response at hand, those with a colon, and whether one of
\* these has a count that is no decimal integer
TextLines == splitlines(response_text[1])

ColonLines == SelectSeq(TextLines, WithColon)

BadCount == \E k \in 1..Len(ColonLines) : ~IsDecimal(AfterColon(ColonLines[k]))

\* the response holds the caller's own suffix with a proper count
HoldsOwnSuffix ==
    \E k \in 1..Len(ColonLines) :
        BeforeColon(ColonLines[k]) = OwnSuffix /\ IsDecimal(AfterColon(ColonLines[k]))

\* C29: lines without a colon are skipped and change nothing; a response with
\* a colon line whose count is no decimal integer makes the attempt fail
\* (ValueError): it is retried with backoff, and when the last attempt fails
\* so, check_breach returns (FALSE, 0), even if the response holds the
\* matching suffix.
C29_MalformedLines ==
    /\ (pc \in {"cb_scan", "cb_except"} /\ response_text # None) =>
          /\ (pc = "cb_except") <=> BadCount
          /\ pc = "cb_except" => last_error.type = "ValueError"
          /\ pc = "cb_scan" =>
                /\ Len(suffixes) = Len(ColonLines)
                /\ \A k \in 1..Len(suffixes) :
                      /\ suffixes[k].suffix = BeforeColon(ColonLines[k])
                      /\ suffixes[k].count = DecimalValue(AfterColon(ColonLines[k]))
    /\ (pc = "cb_sleep" /\ last_error.type = "ValueError") =>
          /\ attempt < max_retries - 1
          /\ sleeps # <<>>
          /\ sleeps[Len(sleeps)] = 2 ^ attempt
    /\ (pc = "cb_exit" /\ last_error.type = "ValueError" /\ cb_outcome.kind = "return") =>
          /\ cb_outcome.value = <<FALSE, 0>>
          /\ Len(api_calls) = max_retries
          /\ response_text # None /\ BadCount

\* C29 witness: two attempts, the second one answered by a response that holds
\* the caller's suffix with a count and a line with the count "1x"; the
\* result is (FALSE, 0)
C29_Witness ==
    /\ pc = "cb_exit"
    /\ caller = "direct"
    /\ max_retries = 2
    /\ sleeps = <<1>>
    /\ last_error.type = "ValueError"
    /\ response_text # None
    /\ HoldsOwnSuffix
    /\ BadCount
    /\ cb_outcome = Return(<<FALSE, 0>>)

----------------------------------------------------------------------------
(* estimate_crack_time on large entropies *)

\* C30: estimate_crack_time returns both formatted durations, and raises
\* nothing, for every entropy calculate_entropy can produce, those over 1024
\* bits included; hence analyze_password completes for passwords of any length.
C30_CrackTimeNeverRaises ==
    /\ pc # "an_raised"
    /\ analysis_error = "none"
    /\ pc = "an_returned" =>
          DOMAIN record[1].estimated_crack_time =
              {"online_attack_100_per_second", "offline_attack_10B_per_second"}

====
